---- MODULE Spec2Model ----
(***************************************************************************)
(* Algorithm-Visualizer: the trace-producing engines of the visualizer     *)
(* components and the playback controller every component repeats          *)
(* (runVisualization, toggleAutoPlay, the interval effect, nextStep,       *)
(* prevStep, reset).                                                       *)
(*                                                                         *)
(* Conventions.                                                            *)
(*  - A JS array of length n is a function over 0..n-1, so indices are the *)
(*    source's.  A list built with push (steps, edges, adjacency lists) is *)
(*    a sequence.                                                          *)
(*  - JS Infinity is the integer Infinity below: larger than every finite  *)
(*    distance of the bounded inputs; the engines never add to it (every   *)
(*    addition is guarded by a finiteness test in the source).             *)
(*  - null / undefined is Null.                                            *)
(*  - description is modelled by the fixed part of the template string.    *)
(*  - Edge.id is left out: it is only a React key.                         *)
(***************************************************************************)
EXTENDS Integers, Sequences, FiniteSets, TLC

VARIABLES
  algo,           \* the mounted visualizer (Index.selectedAlgorithm)
  vertices,       \* useState: vertex count of the graph components
  edges,          \* useState: edge list of the graph components
  startVertex,    \* useState: source / start vertex
  text,           \* useState: text of the string components
  pattern,        \* useState: pattern of the string components
  prime,          \* useState: Rabin-Karp modulus
  base,           \* useState: Rabin-Karp base
  steps,          \* useState: the trace
  currentStep,    \* useState: index into the trace
  isRunning,      \* useState
  isAutoPlaying,  \* useState
  matches,        \* useState: match offsets of the string components
  mstWeight,      \* useState: total weight of the MST components
  totalComparisons, \* useState: comparison count of the naive component
  failureFunction,  \* useState: LPS array of the KMP component
  hashTable,      \* useState: window -> hash of the Rabin-Karp component
  frequencies,    \* useState: character counts of the Huffman component
  codes,          \* useState: code table of the Huffman component
  encodedText,    \* useState: encoded bit string of the Huffman component
  intervalRef,    \* useRef: id of the interval last started, or Null
  timers,         \* the browser's active intervals: [id, len], len the
                  \* steps.length the callback's closure captured
  lastCall,       \* history: the handler that ran last
  nextsSinceRun,  \* history: nextStep calls since the last runVisualization
                  \* with nothing else in between (Null once interleaved)
  before,         \* history: the controller state the last handler started in
  userActive      \* environment: FALSE once the user stops interacting

vars == <<algo, vertices, edges, startVertex, text, pattern, prime, base,
          steps, currentStep, isRunning, isAutoPlaying, matches, mstWeight,
          totalComparisons, failureFunction, hashTable, frequencies, codes,
          encodedText, intervalRef, timers, lastCall, nextsSinceRun, before,
          userActive>>

huffmanVars == <<frequencies, codes, encodedText>>

resultVars == <<matches, mstWeight, totalComparisons, failureFunction, hashTable,
                frequencies, codes, encodedText>>

inputVars == <<algo, vertices, edges, startVertex, text, pattern, prime, base>>

----------------------------------------------------------------------------
(* Bounds of the model *)

MaxVertices == 3
MaxEdges == 3
MaxTextLen == 4

(* Representation *)

Infinity == 1000000
Null == -1

----------------------------------------------------------------------------
(* Generic helpers *)

Min(a, b) == IF a < b THEN a ELSE b

Last(s) == s[Len(s)]

\* new Array(n).fill(x), built entry by entry
RECURSIVE Fill(_, _)
Fill(n, x) ==
  IF n <= 0 THEN <<>>
  ELSE IF n = 1 THEN 0 :> x
  ELSE Fill(n - 1, x) @@ ((n - 1) :> x)

\* steps.push({ step: stepCounter++, ...fields })
\* Fault: the step is numbered without advancing the counter.
PushKeepsCounter(st, fields) ==
  [st EXCEPT !.steps = Append(@, fields @@ [step |-> st.stepCounter])]

Push(st, fields) ==
  [st EXCEPT !.steps = Append(@, fields @@ [step |-> st.stepCounter]),
             !.stepCounter = @ + 1]

Edge(f, t, w) == [from |-> f, to |-> t, weight |-> w]

Reversed(e) == [e EXCEPT !.from = e.to, !.to = e.from]

\* adjList[v] after edges[1..k] have been pushed
RECURSIVE AdjList(_, _, _)
AdjList(es, v, k) ==
  IF k = 0 THEN <<>>
  ELSE LET e == es[k]
           prior == AdjList(es, v, k - 1)
           a == IF e.from = v THEN Append(prior, e) ELSE prior
       IN  IF e.to = v THEN Append(a, Reversed(e)) ELSE a

----------------------------------------------------------------------------
(* Dijkstra *)

\* Fault: the scan tests distances[v] <= minDistance, so of several unvisited
\* vertices at the minimum distance the last one is selected.
RECURSIVE DijkstraFindMinLast(_, _, _, _, _, _)
DijkstraFindMinLast(distances, visited, n, v, minDistance, minVertex) ==
  IF v >= n THEN minVertex
  ELSE IF ~visited[v] /\ distances[v] <= minDistance /\ distances[v] < Infinity
       THEN DijkstraFindMinLast(distances, visited, n, v + 1, distances[v], v)
       ELSE DijkstraFindMinLast(distances, visited, n, v + 1, minDistance, minVertex)

\* the scan for the unvisited vertex of minimum distance, from vertex v on
RECURSIVE DijkstraFindMin(_, _, _, _, _, _)
DijkstraFindMin(distances, visited, n, v, minDistance, minVertex) ==
  IF v >= n THEN minVertex
  ELSE IF ~visited[v] /\ distances[v] < minDistance
       THEN DijkstraFindMin(distances, visited, n, v + 1, distances[v], v)
       ELSE DijkstraFindMin(distances, visited, n, v + 1, minDistance, minVertex)

\* Fault: the relaxation tests newDistance !== distances[neighbor], so a longer
\* path found later overwrites a shorter one.
DijkstraOverwrites(newDistance, oldDistance) == newDistance # oldDistance

DijkstraImproves(newDistance, oldDistance) == newDistance < oldDistance

\* while (current !== null) { path.unshift(current); current = previous[current]; }
RECURSIVE DijkstraPath(_, _)
DijkstraPath(previous, current) ==
  IF current = Null THEN <<>>
  ELSE Append(DijkstraPath(previous, previous[current]), current)

\* getShortestPaths(): paths[i] for the vertices i of finite distance, from i on
RECURSIVE getShortestPaths(_, _, _, _)
getShortestPaths(distances, previous, n, i) ==
  IF i >= n THEN <<>>
  ELSE LET rest == getShortestPaths(distances, previous, n, i + 1)
       IN  IF distances[i] # Infinity
           THEN (i :> DijkstraPath(previous, i)) @@ rest
           ELSE rest

DijkstraStep(st, description, currentVertex, minVertex) ==
  Push(st, [description |-> description,
            distances |-> st.distances,
            visited |-> st.visited,
            previous |-> st.previous,
            currentVertex |-> currentVertex,
            minVertex |-> minVertex,
            shortestPaths |-> getShortestPaths(st.distances, st.previous,
                                               st.vertices, 0)])

\* adjList[minVertex].forEach(edge => ...), from the k-th entry on
RECURSIVE DijkstraRelax(_, _, _, _)
DijkstraRelax(st, minVertex, adj, k) ==
  IF k > Len(adj) THEN st
  ELSE LET edge == adj[k]
           neighbor == edge.to
           newDistance == st.distances[minVertex] + edge.weight
       IN  IF ~st.visited[neighbor]
              /\ DijkstraImproves(newDistance, st.distances[neighbor])
           THEN DijkstraRelax(
                  DijkstraStep([st EXCEPT !.distances[neighbor] = newDistance,
                                          !.previous[neighbor] = minVertex],
                               "Update distance", minVertex, Null),
                  minVertex, adj, k + 1)
           ELSE DijkstraRelax(st, minVertex, adj, k + 1)

\* for (let count = 0; count < vertices; count++) { ... }
RECURSIVE DijkstraLoop(_, _, _, _)
DijkstraLoop(st, n, es, count) ==
  IF count >= n THEN st
  ELSE LET minVertex == DijkstraFindMin(st.distances, st.visited, n, 0, Infinity, -1)
       IN  IF minVertex = -1 THEN st
           ELSE LET selected == DijkstraStep(st, "Select vertex", Null, minVertex)
                    marked == DijkstraStep([selected EXCEPT !.visited[minVertex] = TRUE],
                                           "Mark vertex", minVertex, Null)
                    relaxed == DijkstraRelax(marked, minVertex,
                                             AdjList(es, minVertex, Len(es)), 1)
                IN  DijkstraLoop(relaxed, n, es, count + 1)

dijkstraAlgorithm(n, es, s) ==
  LET st0 == [vertices |-> n,
              distances |-> [Fill(n, Infinity) EXCEPT ![s] = 0],
              visited |-> Fill(n, FALSE),
              previous |-> Fill(n, Null),
              steps |-> <<>>,
              stepCounter |-> 1]
      init == DijkstraStep(st0, "Initialize", Null, Null)
      done == DijkstraLoop(init, n, es, 0)
  IN  DijkstraStep(done, "Dijkstra's algorithm complete", Null, Null).steps

DefaultUndirectedEdges ==
  << Edge(0, 1, 4), Edge(0, 2, 2), Edge(1, 2, 1), Edge(1, 3, 5), Edge(2, 3, 8),
     Edge(2, 4, 10), Edge(3, 4, 2), Edge(3, 5, 6), Edge(4, 5, 3) >>

----------------------------------------------------------------------------
(* Bellman-Ford *)

\* Fault: the relaxation compares with <= instead of <, so an edge whose head
\* already holds the distance through it counts as relaxable.
BFCanRelaxNonStrict(distances, edge) ==
  /\ distances[edge.from] # Infinity
  /\ distances[edge.from] + edge.weight <= distances[edge.to]

\* Fault: the relaxation leaves out the distances[edge.from] !== Infinity test.
BFCanRelaxUnguarded(distances, edge) ==
  distances[edge.from] + edge.weight < distances[edge.to]

\* distances[edge.from] !== Infinity && distances[edge.from] + edge.weight < distances[edge.to]
BFCanRelax(distances, edge) ==
  /\ distances[edge.from] # Infinity
  /\ distances[edge.from] + edge.weight < distances[edge.to]

BFStep(st, description, currentEdge, relaxationCount, hasNegativeCycle) ==
  Push(st, [description |-> description,
            distances |-> st.distances,
            previous |-> st.previous,
            currentEdge |-> currentEdge,
            relaxationCount |-> relaxationCount,
            hasNegativeCycle |-> hasNegativeCycle])

\* for (const edge of edges) { relax }, from the k-th edge on
RECURSIVE BFPass(_, _, _)
BFPass(st, es, k) ==
  IF k > Len(es) THEN st
  ELSE LET edge == es[k]
       IN  IF BFCanRelax(st.distances, edge)
           THEN LET upd == [st EXCEPT
                              !.distances[edge.to] = st.distances[edge.from] + edge.weight,
                              !.previous[edge.to] = edge.from,
                              !.relaxed = TRUE,
                              !.relaxationCount = @ + 1]
                IN  BFPass(BFStep(upd, "Relax edge", edge, upd.relaxationCount, FALSE),
                           es, k + 1)
           ELSE BFPass(st, es, k + 1)

\* Fault: the loop has no break after the early-termination step, so the
\* remaining iterations still start.
RECURSIVE BFIterationsNoBreak(_, _, _, _)
BFIterationsNoBreak(st, n, es, i) ==
  IF i >= n - 1 THEN st
  ELSE LET started == BFStep([st EXCEPT !.relaxed = FALSE], "Iteration",
                             Null, st.relaxationCount, FALSE)
           passed == BFPass(started, es, 1)
       IN  IF ~passed.relaxed
           THEN BFIterationsNoBreak(BFStep(passed, "No edges relaxed", Null,
                                           passed.relaxationCount, FALSE),
                                    n, es, i + 1)
           ELSE BFIterationsNoBreak(passed, n, es, i + 1)

\* for (let i = 0; i < vertices - 1; i++) { ... if (!relaxed) { ...; break; } }
RECURSIVE BFIterations(_, _, _, _)
BFIterations(st, n, es, i) ==
  IF i >= n - 1 THEN st
  ELSE LET started == BFStep([st EXCEPT !.relaxed = FALSE], "Iteration",
                             Null, st.relaxationCount, FALSE)
           passed == BFPass(started, es, 1)
       IN  IF ~passed.relaxed
           THEN BFStep(passed, "No edges relaxed", Null, passed.relaxationCount, FALSE)
           ELSE BFIterations(passed, n, es, i + 1)

\* the first edge of the detection pass that can still be relaxed, 0 if none
RECURSIVE BFFirstRelaxable(_, _, _)
BFFirstRelaxable(distances, es, k) ==
  IF k > Len(es) THEN 0
  ELSE IF BFCanRelax(distances, es[k]) THEN k
       ELSE BFFirstRelaxable(distances, es, k + 1)

BFDetect(st, es) ==
  LET k == BFFirstRelaxable(st.distances, es, 1)
  IN  IF k # 0
      THEN BFStep(st, "Negative cycle detected", es[k], st.relaxationCount, TRUE)
      ELSE BFStep(st, "No negative cycle found", Null, st.relaxationCount, FALSE)

bellmanFordAlgorithm(n, es, s) ==
  LET st0 == [distances |-> [Fill(n, Infinity) EXCEPT ![s] = 0],
              previous |-> Fill(n, Null),
              steps |-> <<>>,
              stepCounter |-> 1,
              relaxationCount |-> 0,
              relaxed |-> FALSE]
      init == BFStep(st0, "Initialize", Null, 0, FALSE)
      iterated == BFIterations(init, n, es, 0)
      check == BFStep(iterated, "Check for negative cycles", Null,
                      iterated.relaxationCount, FALSE)
  IN  BFDetect(check, es).steps

----------------------------------------------------------------------------
(* Floyd-Warshall *)

INF == 999

\* edges.forEach(edge => { distances[from][to] = weight; next[from][to] = to })
RECURSIVE FWLoadEdges(_, _, _)
FWLoadEdges(st, es, k) ==
  IF k > Len(es) THEN st
  ELSE LET edge == es[k]
       IN  FWLoadEdges([st EXCEPT !.distances[edge.from][edge.to] = edge.weight,
                                  !.next[edge.from][edge.to] = edge.to],
                       es, k + 1)

\* for (let i = 0; i < vertices; i++) distances[i][i] = 0
RECURSIVE FWDiagonal(_, _, _)
FWDiagonal(distances, n, i) ==
  IF i >= n THEN distances
  ELSE FWDiagonal([distances EXCEPT ![i][i] = 0], n, i + 1)

FWStep(st, description, k, i, j, improvement) ==
  Push(st, [description |-> description,
            distances |-> st.distances,
            next |-> st.next,
            k |-> k, i |-> i, j |-> j,
            improvement |-> improvement])

\* i !== j && distances[i][k] + distances[k][j] < distances[i][j]
FWImproves(distances, i, j, k) ==
  /\ i # j
  /\ distances[i][k] + distances[k][j] < distances[i][j]

\* Fault: an update stores the intermediate vertex, next[i][j] = k, instead
\* of the first hop towards it, next[i][k].
RECURSIVE FWInnerNextIsK(_, _, _, _, _)
FWInnerNextIsK(st, n, k, i, j) ==
  IF i >= n THEN st
  ELSE IF j >= n THEN FWInnerNextIsK(st, n, k, i + 1, 0)
  ELSE IF FWImproves(st.distances, i, j, k)
       THEN FWInnerNextIsK(
              FWStep([st EXCEPT
                        !.distances[i][j] = st.distances[i][k] + st.distances[k][j],
                        !.next[i][j] = k],
                     "Update path", k, i, j, TRUE),
              n, k, i, j + 1)
       ELSE FWInnerNextIsK(st, n, k, i, j + 1)

\* the two inner loops of one k, from the pair (i, j) on
RECURSIVE FWInner(_, _, _, _, _)
FWInner(st, n, k, i, j) ==
  IF i >= n THEN st
  ELSE IF j >= n THEN FWInner(st, n, k, i + 1, 0)
  ELSE IF FWImproves(st.distances, i, j, k)
       THEN FWInner(
              FWStep([st EXCEPT
                        !.distances[i][j] = st.distances[i][k] + st.distances[k][j],
                        !.next[i][j] = st.next[i][k]],
                     "Update path", k, i, j, TRUE),
              n, k, i, j + 1)
       ELSE FWInner(st, n, k, i, j + 1)

RECURSIVE FWOuter(_, _, _)
FWOuter(st, n, k) ==
  IF k >= n THEN st
  ELSE FWOuter(FWInner(FWStep(st, "Iteration k", k, Null, Null, FALSE), n, k, 0, 0),
               n, k + 1)

floydWarshallAlgorithm(n, es) ==
  LET st0 == [distances |-> FWDiagonal(Fill(n, Fill(n, INF)), n, 0),
              next |-> Fill(n, Fill(n, Null)),
              steps |-> <<>>,
              stepCounter |-> 1]
      init == FWStep(FWLoadEdges(st0, es, 1), "Initialize", -1, Null, Null, FALSE)
      done == FWOuter(init, n, 0)
  IN  FWStep(done, "Floyd-Warshall complete", n, Null, Null, FALSE).steps

DefaultBellmanFordEdges ==
  << Edge(0, 1, 4), Edge(0, 2, 2), Edge(1, 3, 3), Edge(2, 1, -2), Edge(2, 3, 4),
     Edge(3, 4, 1), Edge(1, 4, 6) >>

DefaultFloydWarshallEdges ==
  << Edge(0, 1, 3), Edge(0, 3, 7), Edge(1, 0, 8), Edge(1, 2, 2), Edge(2, 0, 5),
     Edge(2, 3, 1), Edge(3, 0, 2) >>

----------------------------------------------------------------------------
(* Kruskal *)

\* Fault: an unstable sort that puts an edge before the edges of its weight.
RECURSIVE InsertBeforeTies(_, _)
InsertBeforeTies(s, e) ==
  IF s = <<>> THEN <<e>>
  ELSE IF Last(s).weight < e.weight THEN Append(s, e)
       ELSE Append(InsertBeforeTies(SubSeq(s, 1, Len(s) - 1), e), Last(s))

\* where a stable ascending sort puts e among the already sorted s
RECURSIVE InsertByWeight(_, _)
InsertByWeight(s, e) ==
  IF s = <<>> THEN <<e>>
  ELSE IF Last(s).weight <= e.weight THEN Append(s, e)
       ELSE Append(InsertByWeight(SubSeq(s, 1, Len(s) - 1), e), Last(s))

\* [...list].sort((a, b) => a.weight - b.weight): ascending and stable
RECURSIVE SortByWeight(_)
SortByWeight(s) ==
  IF s = <<>> THEN <<>>
  ELSE InsertByWeight(SortByWeight(SubSeq(s, 1, Len(s) - 1)), Last(s))

\* find with path compression: the changed parent array and the root
RECURSIVE find(_, _)
find(parent, i) ==
  IF parent[i] # i
  THEN LET r == find(parent, parent[i])
       IN  [parent |-> [r.parent EXCEPT ![i] = r.root], root |-> r.root]
  ELSE [parent |-> parent, root |-> parent[i]]

\* Fault: roots of equal rank are not linked, only the rank is raised.
unionSkipsEqualRanks(parent, rank, x, y) ==
  LET fx == find(parent, x)
      fy == find(fx.parent, y)
      xroot == fx.root
      yroot == fy.root
  IN  IF rank[xroot] < rank[yroot]
      THEN [parent |-> [fy.parent EXCEPT ![xroot] = yroot], rank |-> rank]
      ELSE IF rank[xroot] > rank[yroot]
      THEN [parent |-> [fy.parent EXCEPT ![yroot] = xroot], rank |-> rank]
      ELSE [parent |-> fy.parent, rank |-> [rank EXCEPT ![xroot] = @ + 1]]

union(parent, rank, x, y) ==
  LET fx == find(parent, x)
      fy == find(fx.parent, y)
      xroot == fx.root
      yroot == fy.root
  IN  IF rank[xroot] < rank[yroot]
      THEN [parent |-> [fy.parent EXCEPT ![xroot] = yroot], rank |-> rank]
      ELSE IF rank[xroot] > rank[yroot]
      THEN [parent |-> [fy.parent EXCEPT ![yroot] = xroot], rank |-> rank]
      ELSE [parent |-> [fy.parent EXCEPT ![yroot] = xroot],
            rank |-> [rank EXCEPT ![xroot] = @ + 1]]

\* Array.from({ length: n }, (_, i) => i)
RECURSIVE Identity(_)
Identity(n) ==
  IF n <= 0 THEN <<>>
  ELSE IF n = 1 THEN 0 :> 0
  ELSE Identity(n - 1) @@ ((n - 1) :> (n - 1))

KruskalStep(st, description, currentEdge, isValidEdge) ==
  Push(st, [description |-> description,
            sortedEdges |-> st.sortedEdges,
            currentEdge |-> currentEdge,
            mstEdges |-> st.mstEdges,
            parent |-> st.parent,
            isValidEdge |-> isValidEdge,
            totalWeight |-> st.totalWeight])

\* for (const edge of sortedEdges) { ... if (mstEdges.length === vertices - 1) break; }
RECURSIVE KruskalLoop(_, _, _)
KruskalLoop(st, n, k) ==
  IF k > Len(st.sortedEdges) THEN st
  ELSE LET edge == st.sortedEdges[k]
           fx == find(st.parent, edge.from)
           fy == find(fx.parent, edge.to)
           rootX == fx.root
           rootY == fy.root
           examined == KruskalStep([st EXCEPT !.parent = fy.parent],
                                   "Examining edge", edge, FALSE)
           u == union(examined.parent, examined.rank, rootX, rootY)
           after ==
             IF rootX # rootY
             THEN KruskalStep([examined EXCEPT
                                 !.parent = u.parent,
                                 !.rank = u.rank,
                                 !.mstEdges = Append(@, edge),
                                 !.totalWeight = @ + edge.weight],
                              "added to MST", edge, TRUE)
             ELSE KruskalStep(examined, "rejected", edge, FALSE)
       IN  IF Len(after.mstEdges) = n - 1 THEN after
           ELSE KruskalLoop(after, n, k + 1)

kruskalMST(n, es) ==
  LET st0 == [sortedEdges |-> SortByWeight(es),
              parent |-> Identity(n),
              rank |-> Fill(n, 0),
              mstEdges |-> <<>>,
              totalWeight |-> 0,
              steps |-> <<>>,
              stepCounter |-> 1]
      init == KruskalStep(st0, "Initialize", Null, FALSE)
      done == KruskalLoop(init, n, 1)
  IN  KruskalStep(done, "Minimum Spanning Tree complete", Null, FALSE).steps

----------------------------------------------------------------------------
(* Prim *)

\* the scan of getAvailableEdges over vertex i's adjacency list, from entry k on
RECURSIVE PrimScanVertex(_, _, _, _)
PrimScanVertex(available, visited, adj, k) ==
  IF k > Len(adj) THEN available
  ELSE PrimScanVertex(IF ~visited[adj[k].to] THEN Append(available, adj[k])
                      ELSE available,
                      visited, adj, k + 1)

RECURSIVE PrimScan(_, _, _, _, _)
PrimScan(available, visited, n, es, i) ==
  IF i >= n THEN available
  ELSE PrimScan(IF visited[i]
                THEN PrimScanVertex(available, visited, AdjList(es, i, Len(es)), 1)
                ELSE available,
                visited, n, es, i + 1)

\* Fault: the available edges are sorted by an unstable sort that puts the
\* edge scanned last first among the edges of its weight.
RECURSIVE SortBeforeTies(_)
SortBeforeTies(s) ==
  IF s = <<>> THEN <<>>
  ELSE InsertBeforeTies(SortBeforeTies(SubSeq(s, 1, Len(s) - 1)), Last(s))

getAvailableEdgesUnstable(visited, n, es) == SortBeforeTies(PrimScan(<<>>, visited, n, es, 0))

\* Fault: the available edges are not sorted, so the first one is taken
\* instead of the lightest.
getAvailableEdgesUnsorted(visited, n, es) == PrimScan(<<>>, visited, n, es, 0)

getAvailableEdges(visited, n, es) == SortByWeight(PrimScan(<<>>, visited, n, es, 0))

PrimStep(st, description, currentVertex, minEdge, availableEdges) ==
  Push(st, [description |-> description,
            visited |-> st.visited,
            mstEdges |-> st.mstEdges,
            currentVertex |-> currentVertex,
            minEdge |-> minEdge,
            totalWeight |-> st.totalWeight,
            availableEdges |-> availableEdges])

\* while (mstEdges.length < vertices - 1) { ... if (availableEdges.length === 0) break; ... }
RECURSIVE PrimLoop(_, _, _)
PrimLoop(st, n, es) ==
  IF ~(Len(st.mstEdges) < n - 1) THEN st
  ELSE LET availableEdges == getAvailableEdges(st.visited, n, es)
       IN  IF Len(availableEdges) = 0 THEN st
           ELSE LET minEdge == availableEdges[1]
                    found == PrimStep(st, "Find minimum weight edge", Null, minEdge,
                                      availableEdges)
                    grown == [found EXCEPT !.visited[minEdge.to] = TRUE,
                                           !.mstEdges = Append(@, minEdge),
                                           !.totalWeight = @ + minEdge.weight]
                    added == PrimStep(grown, "Add vertex", minEdge.to, Null,
                                      getAvailableEdges(grown.visited, n, es))
                IN  PrimLoop(added, n, es)

primMST(n, es, s) ==
  LET st0 == [visited |-> [Fill(n, FALSE) EXCEPT ![s] = TRUE],
              mstEdges |-> <<>>,
              totalWeight |-> 0,
              steps |-> <<>>,
              stepCounter |-> 1]
      init == PrimStep(st0, "Start with vertex", s, Null,
                       getAvailableEdges(st0.visited, n, es))
      done == PrimLoop(init, n, es)
  IN  PrimStep(done, "Minimum Spanning Tree complete", Null, Null, <<>>).steps

----------------------------------------------------------------------------
(* Strings: a JS string is a sequence of one-character strings *)

Undefined == "undefined"

\* str[i], undefined outside the string
CharAt(str, i) == IF i >= 0 /\ i < Len(str) THEN str[i + 1] ELSE Undefined

\* str.substring(from, to) for 0 <= from <= to
Substring(str, from, to) == SubSeq(str, from + 1, Min(to, Len(str)))

\* char.charCodeAt(0)
charToNum(char) ==
  CASE char = "A" -> 65
    [] char = "B" -> 66
    [] char = "C" -> 67
    [] char = "D" -> 68
    [] char = "R" -> 82

\* JS a % b for b > 0: the remainder takes the sign of the dividend
JSRem(a, b) == IF a >= 0 THEN a % b ELSE -((-a) % b)

\* JS numbers are IEEE-754 doubles: an integer result of up to 53 bits is
\* exact, a longer one is rounded to 53 significant bits (ties to even).  The
\* products of the hash arithmetic are computed on little-endian lists of
\* 15-bit limbs; their factors are below 2^30, so a result has at most 62 bits
\* and the rounding touches the lowest limb only.
Limb == 32768

RECURSIVE Pow2(_)
Pow2(k) == IF k = 0 THEN 1 ELSE 2 * Pow2(k - 1)

RECURSIVE BitLength(_)
BitLength(x) == IF x = 0 THEN 0 ELSE 1 + BitLength(x \div 2)

RECURSIVE Limbs(_)
Limbs(x) == IF x = 0 THEN <<>> ELSE <<x % Limb>> \o Limbs(x \div Limb)

RECURSIVE Strip(_)
Strip(A) ==
  IF A # <<>> /\ A[Len(A)] = 0 THEN Strip(SubSeq(A, 1, Len(A) - 1)) ELSE A

RECURSIVE BigAdd(_, _, _)
BigAdd(A, B, carry) ==
  IF A = <<>> /\ B = <<>> THEN (IF carry = 0 THEN <<>> ELSE <<carry>>)
  ELSE LET s == (IF A = <<>> THEN 0 ELSE A[1]) + (IF B = <<>> THEN 0 ELSE B[1]) + carry
       IN  <<s % Limb>> \o BigAdd(IF A = <<>> THEN <<>> ELSE Tail(A),
                                   IF B = <<>> THEN <<>> ELSE Tail(B),
                                   s \div Limb)

\* A - B for A >= B
RECURSIVE BigSub(_, _, _)
BigSub(A, B, borrow) ==
  IF A = <<>> THEN <<>>
  ELSE LET d == A[1] - (IF B = <<>> THEN 0 ELSE B[1]) - borrow
       IN  <<IF d < 0 THEN d + Limb ELSE d>>
             \o BigSub(Tail(A), IF B = <<>> THEN <<>> ELSE Tail(B),
                       IF d < 0 THEN 1 ELSE 0)

RECURSIVE BigMulLimb(_, _, _)
BigMulLimb(A, d, carry) ==
  IF A = <<>> THEN (IF carry = 0 THEN <<>> ELSE <<carry>>)
  ELSE LET s == A[1] * d + carry
       IN  <<s % Limb>> \o BigMulLimb(Tail(A), d, s \div Limb)

RECURSIVE BigMul(_, _)
BigMul(A, B) ==
  IF B = <<>> THEN <<>>
  ELSE BigAdd(BigMulLimb(A, B[1], 0), <<0>> \o BigMul(A, Tail(B)), 0)

\* A < 2^30, as an integer
BigSmall(A) ==
  LET Small(S) == IF S = <<>> THEN 0 ELSE IF Len(S) = 1 THEN S[1] ELSE S[1] + Limb * S[2]
  IN  Small(Strip(A))

\* The double nearest to an integer keeps its 53 leading bits; with s > 0
\* excess bits the lowest limb is rounded to a multiple of unit = 2^s, a tie
\* going to the even multiple.
ExcessBits(A) ==
  IF A = <<>> THEN 0 ELSE (Len(A) - 1) * 15 + BitLength(A[Len(A)]) - 53

RoundAt(A, unit) ==
  IF \/ 2 * (A[1] % unit) > unit
     \/ 2 * (A[1] % unit) = unit /\ (A[1] \div unit) % 2 = 1
  THEN BigAdd([A EXCEPT ![1] = @ - (@ % unit)], <<unit>>, 0)
  ELSE [A EXCEPT ![1] = @ - (@ % unit)]

RoundStripped(A) == IF ExcessBits(A) <= 0 THEN A ELSE RoundAt(A, Pow2(ExcessBits(A)))

\* the double nearest to the integer A0
RoundToDouble(A0) == RoundStripped(Strip(A0))

\* (r * 2^k + the low k bits of d) % p for r < p <= 2^30.  Each guard states
\* that the remainder so far is below p, and has it evaluated before the next
\* bit is taken.
RECURSIVE RemBits(_, _, _, _)
RemBits(r, d, k, p) ==
  IF k = 0 THEN r
  ELSE LET shifted == (2 * r + ((d \div Pow2(k - 1)) % 2)) % p
       IN  CASE shifted < p -> RemBits(shifted, d, k - 1, p)

\* A % p, which is exact
RECURSIVE BigRem(_, _)
BigRem(A, p) ==
  IF A = <<>> THEN 0
  ELSE LET r == BigRem(Tail(A), p)
       IN  CASE r < p -> RemBits(r, A[1], 15, p)

\* JS (product + z) % p for the double product >= 0 and an integer z >= 0
JSAddRem(product, z, p) == BigRem(RoundToDouble(BigAdd(product, Limbs(z), 0)), p)

\* JS (-product + z) % p: the remainder takes the sign of the sum
JSSubRem(product, z, p) ==
  IF Len(product) <= 2 /\ BigSmall(product) <= z
  THEN JSRem(z - BigSmall(product), p)
  ELSE -BigRem(RoundToDouble(Strip(BigSub(product, Limbs(z), 0))), p)

\* JS (x * y + z) % p for integers y, z >= 0 and p > 0: the product and the
\* sum are each rounded to a double
JSMulAddRem(x, y, z, p) ==
  IF x >= 0
  THEN JSAddRem(RoundToDouble(BigMul(Limbs(x), Limbs(y))), z, p)
  ELSE JSSubRem(RoundToDouble(BigMul(Limbs(-x), Limbs(y))), z, p)

----------------------------------------------------------------------------
(* Naive search *)

NaiveStep(st, description, textIndex, patternIndex, windowStart, isMatch, isCompleteMatch) ==
  Push(st, [description |-> description,
            textIndex |-> textIndex,
            patternIndex |-> patternIndex,
            windowStart |-> windowStart,
            isMatch |-> isMatch,
            isCompleteMatch |-> isCompleteMatch,
            matches |-> st.foundMatches,
            comparisons |-> st.comparisons])

\* Fault: a matching comparison is recorded without being counted.
RECURSIVE NaiveCompareUncounted(_, _, _, _)
NaiveCompareUncounted(st, txt, pat, i) ==
  IF st.j < Len(pat) /\ CharAt(txt, i + st.j) = CharAt(pat, st.j)
  THEN NaiveCompareUncounted(
         [NaiveStep(st, "Match", i + st.j, st.j, i, TRUE, FALSE)
            EXCEPT !.j = st.j + 1],
         txt, pat, i)
  ELSE st

\* while (j < m && text[i + j] === pattern[j]) { comparisons++; push; j++ }
RECURSIVE NaiveCompare(_, _, _, _)
NaiveCompare(st, txt, pat, i) ==
  LET j == st.j
  IN  IF j < Len(pat) /\ CharAt(txt, i + j) = CharAt(pat, j)
      THEN NaiveCompare(
             [NaiveStep([st EXCEPT !.comparisons = @ + 1],
                        "Match", i + j, j, i, TRUE, FALSE)
                EXCEPT !.j = j + 1],
             txt, pat, i)
      ELSE st

\* for (let i = 0; i <= n - m; i++) { ... }
RECURSIVE NaiveLoop(_, _, _, _)
NaiveLoop(st, txt, pat, i) ==
  LET n == Len(txt)
      m == Len(pat)
  IN  IF ~(i <= n - m) THEN st
      ELSE LET started == NaiveStep([st EXCEPT !.j = 0], "Starting new window",
                                    i, 0, i, FALSE, FALSE)
               compared == NaiveCompare(started, txt, pat, i)
               j == compared.j
               decided ==
                 IF j = m
                 THEN NaiveStep([compared EXCEPT !.foundMatches = Append(@, i)],
                                "Complete match found", i + j - 1, j - 1, i, TRUE, TRUE)
                 ELSE IF i + j < n
                 THEN NaiveStep([compared EXCEPT !.comparisons = @ + 1],
                                "Mismatch", i + j, j, i, FALSE, FALSE)
                 ELSE compared
               shifted ==
                 IF i < n - m
                 THEN NaiveStep(decided, "Shift pattern", i + 1, 0, i + 1, FALSE, FALSE)
                 ELSE decided
           IN  NaiveLoop(shifted, txt, pat, i + 1)

naiveSearch(txt, pat) ==
  LET n == Len(txt)
      m == Len(pat)
      st0 == [foundMatches |-> <<>>, comparisons |-> 0, j |-> 0,
              steps |-> <<>>, stepCounter |-> 1]
      init == NaiveStep(st0, "Initialize", 0, 0, 0, FALSE, FALSE)
      looped == NaiveLoop(init, txt, pat, 0)
      done == NaiveStep(looped, "Search complete", n - 1, 0, n - m, FALSE, FALSE)
  IN  [steps |-> done.steps,
       matches |-> done.foundMatches,
       totalComparisons |-> done.comparisons]

----------------------------------------------------------------------------
(* KMP *)

\* Fault: on a mismatch the loop gives up the whole prefix instead of falling
\* back to its longest border.
RECURSIVE BuildFailureLoopNoFallback(_, _, _, _)
BuildFailureLoopNoFallback(pat, lps, len, i) ==
  IF ~(i < Len(pat)) THEN lps
  ELSE IF CharAt(pat, i) = CharAt(pat, len)
       THEN BuildFailureLoopNoFallback(pat, [lps EXCEPT ![i] = len + 1], len + 1, i + 1)
       ELSE BuildFailureLoopNoFallback(pat, [lps EXCEPT ![i] = 0], 0, i + 1)

\* while (i < pattern.length) { ... } of buildFailureFunction
RECURSIVE BuildFailureLoop(_, _, _, _)
BuildFailureLoop(pat, lps, len, i) ==
  IF ~(i < Len(pat)) THEN lps
  ELSE IF CharAt(pat, i) = CharAt(pat, len)
       THEN BuildFailureLoop(pat, [lps EXCEPT ![i] = len + 1], len + 1, i + 1)
       ELSE IF len # 0
            THEN BuildFailureLoop(pat, lps, lps[len - 1], i)
            ELSE BuildFailureLoop(pat, [lps EXCEPT ![i] = 0], len, i + 1)

\* Fault: the failure function is left at its initial zeros, so the search
\* restarts the pattern from its first character after every match.
buildFailureFunctionZeros(pat) == Fill(Len(pat), 0)

buildFailureFunction(pat) == BuildFailureLoop(pat, Fill(Len(pat), 0), 0, 1)

KMPStep(st, description, textIndex, patternIndex, isMatch) ==
  Push(st, [description |-> description,
            textIndex |-> textIndex,
            patternIndex |-> patternIndex,
            isMatch |-> isMatch,
            matches |-> st.foundMatches])

\* Fault: after a mismatch inside the pattern the search goes back in the
\* text to the character after the start of the window, as the naive search
\* does.
RECURSIVE KMPLoopBacktracks(_, _, _, _)
KMPLoopBacktracks(st, txt, pat, lps) ==
  IF ~(st.textIndex < Len(txt)) THEN st
  ELSE IF CharAt(txt, st.textIndex) = CharAt(pat, st.patternIndex)
  THEN IF st.patternIndex + 1 = Len(pat)
       THEN KMPLoopBacktracks(
              [KMPStep([KMPStep(st, "Match found", st.textIndex, st.patternIndex, TRUE)
                          EXCEPT !.foundMatches = Append(@, st.textIndex - st.patternIndex)],
                       "Complete pattern match found", st.textIndex, st.patternIndex, TRUE)
                 EXCEPT !.textIndex = st.textIndex + 1,
                        !.patternIndex = lps[st.patternIndex]],
              txt, pat, lps)
       ELSE KMPLoopBacktracks(
              [KMPStep(st, "Match found", st.textIndex, st.patternIndex, TRUE)
                 EXCEPT !.textIndex = st.textIndex + 1,
                        !.patternIndex = st.patternIndex + 1],
              txt, pat, lps)
  ELSE IF st.patternIndex # 0
       THEN KMPLoopBacktracks(
              [KMPStep(KMPStep(st, "Mismatch", st.textIndex, st.patternIndex, FALSE),
                       "Using failure function", st.textIndex - st.patternIndex + 1, 0, FALSE)
                 EXCEPT !.textIndex = st.textIndex - st.patternIndex + 1,
                        !.patternIndex = 0],
              txt, pat, lps)
       ELSE KMPLoopBacktracks(
              [KMPStep(st, "Mismatch", st.textIndex, st.patternIndex, FALSE)
                 EXCEPT !.textIndex = st.textIndex + 1],
              txt, pat, lps)

\* while (textIndex < text.length) { ... }
RECURSIVE KMPLoop(_, _, _, _)
KMPLoop(st, txt, pat, lps) ==
  LET textIndex == st.textIndex
      patternIndex == st.patternIndex
  IN  IF ~(textIndex < Len(txt)) THEN st
      ELSE IF CharAt(txt, textIndex) = CharAt(pat, patternIndex)
      THEN LET matched == [KMPStep(st, "Match found", textIndex, patternIndex, TRUE)
                             EXCEPT !.textIndex = textIndex + 1,
                                    !.patternIndex = patternIndex + 1]
           IN  IF matched.patternIndex = Len(pat)
               THEN LET found == [matched EXCEPT !.foundMatches =
                                    Append(@, matched.textIndex - matched.patternIndex)]
                        complete == KMPStep(found, "Complete pattern match found",
                                            found.textIndex - 1,
                                            found.patternIndex - 1, TRUE)
                    IN  KMPLoop([complete EXCEPT
                                   !.patternIndex = lps[complete.patternIndex - 1]],
                                txt, pat, lps)
               ELSE KMPLoop(matched, txt, pat, lps)
      ELSE LET mismatch == KMPStep(st, "Mismatch", textIndex, patternIndex, FALSE)
           IN  IF patternIndex # 0
               THEN LET back == [mismatch EXCEPT !.patternIndex = lps[patternIndex - 1]]
                    IN  KMPLoop(KMPStep(back, "Using failure function", textIndex,
                                        back.patternIndex, FALSE),
                                txt, pat, lps)
               ELSE KMPLoop([mismatch EXCEPT !.textIndex = textIndex + 1],
                            txt, pat, lps)

kmpSearch(txt, pat) ==
  LET lps == buildFailureFunction(pat)
      st0 == [foundMatches |-> <<>>, textIndex |-> 0, patternIndex |-> 0,
              steps |-> <<>>, stepCounter |-> 1]
      init == KMPStep(st0, "Initialize", 0, 0, FALSE)
      looped == KMPLoop(init, txt, pat, lps)
      done == KMPStep(looped, "Search complete", Len(txt) - 1, 0, FALSE)
  IN  [steps |-> done.steps,
       matches |-> done.foundMatches,
       failureFunction |-> lps]

----------------------------------------------------------------------------
(* Rabin-Karp *)

\* for (let i = 0; i < length; i++) hash = (hash * base + charToNum(str[i])) % prime
RECURSIVE CalculateHashLoop(_, _, _, _, _, _)
CalculateHashLoop(str, length, b, p, hash, i) ==
  IF ~(i < length) THEN hash
  ELSE CalculateHashLoop(str, length, b, p,
                         JSMulAddRem(hash, b, charToNum(CharAt(str, i)), p), i + 1)

calculateHash(str, length, b, p) == CalculateHashLoop(str, length, b, p, 0, 0)

\* Fault: the remainder is returned as JavaScript's % leaves it, negative
\* when the difference is.
calculateRollingHashSigned(oldHash, oldChar, newChar, pow, b, p) ==
  JSMulAddRem(oldHash - JSMulAddRem(charToNum(oldChar), pow, 0, p), b, charToNum(newChar), p)

calculateRollingHash(oldHash, oldChar, newChar, pow, b, p) ==
  LET NonNegative(newHash) == IF newHash < 0 THEN newHash + p ELSE newHash
  IN  NonNegative(JSMulAddRem(oldHash - JSMulAddRem(charToNum(oldChar), pow, 0, p),
                              b, charToNum(newChar), p))

\* for (let i = 0; i < m - 1; i++) pow = (pow * base) % prime
RECURSIVE RKPow(_, _, _, _)
RKPow(m, b, p, i) ==
  IF i = 0 THEN 1 ELSE JSMulAddRem(RKPow(m, b, p, i - 1), b, 0, p)

RKStep(st, description, windowStart, currentWindow, isHashMatch, isExactMatch) ==
  Push(st, [description |-> description,
            windowStart |-> windowStart,
            currentWindow |-> currentWindow,
            windowHash |-> st.windowHash,
            patternHash |-> st.patternHash,
            isHashMatch |-> isHashMatch,
            isExactMatch |-> isExactMatch,
            matches |-> st.foundMatches])

\* Fault: a hash match is taken for an exact match without comparing the
\* window with the pattern.
RKVerifyTrustsHash(st, pat, i, currentWindow) ==
  IF st.windowHash = st.patternHash
  THEN RKStep([st EXCEPT !.foundMatches = Append(@, i)],
              "Hash match and exact match", i, currentWindow, TRUE, TRUE)
  ELSE st

\* if (hash match) { isExact = window === pattern; if (isExact) push(i); steps.push }
RKVerify(st, pat, i, currentWindow) ==
  IF st.windowHash = st.patternHash
  THEN LET isExact == currentWindow = pat
           found == IF isExact THEN [st EXCEPT !.foundMatches = Append(@, i)] ELSE st
       IN  RKStep(found,
                  IF isExact THEN "Hash match and exact match" ELSE "Hash collision",
                  i, currentWindow, TRUE, isExact)
  ELSE st

\* the body of the loop once the rolling hash of the window at i is known
RKRoll(st, pat, i, currentWindow, windowHash) ==
  RKVerify(RKStep([st EXCEPT !.windowHash = windowHash,
                             !.hashes = (currentWindow :> windowHash) @@ @],
                  "Rolling hash", i, currentWindow, windowHash = st.patternHash, FALSE),
           pat, i, currentWindow)

\* for (let i = 1; i <= n - m; i++) { ... }
RECURSIVE RKLoop(_, _, _, _, _, _, _)
RKLoop(st, txt, pat, pow, b, p, i) ==
  LET n == Len(txt)
      m == Len(pat)
  IN  IF ~(i <= n - m) THEN st
      ELSE RKLoop(RKRoll(st, pat, i, Substring(txt, i, i + m),
                         calculateRollingHash(st.windowHash, CharAt(txt, i - 1),
                                              CharAt(txt, i + m - 1), pow, b, p)),
                  txt, pat, pow, b, p, i + 1)

\* the engine's effect on the component state: Null where it sets nothing
rabinKarpSearch(txt, pat, b, p) ==
  LET n == Len(txt)
      m == Len(pat)
      firstWindow == Substring(txt, 0, m)
      Result(done) ==
        [steps |-> done.steps, matches |-> done.foundMatches, hashTable |-> done.hashes]
      Search(patternHash, pow, windowHash) ==
        Result(RKStep(RKLoop(RKVerify(RKStep([foundMatches |-> <<>>,
                                              windowHash |-> windowHash,
                                              patternHash |-> patternHash,
                                              hashes |-> (firstWindow :> windowHash)
                                                           @@ (pat :> patternHash),
                                              steps |-> <<>>, stepCounter |-> 1],
                                             "Initialize", 0, firstWindow,
                                             windowHash = patternHash, FALSE),
                                      pat, 0, firstWindow),
                             txt, pat, pow, b, p, 1),
                      "Search complete", n - m, Substring(txt, n - m, n), FALSE, FALSE))
  IN  IF m > n
      THEN [steps |-> <<>>, matches |-> <<>>, hashTable |-> Null]
      ELSE Search(calculateHash(pat, m, b, p), RKPow(m, b, p, m - 1),
                  calculateHash(txt, m, b, p))

DefaultText == <<"A", "B", "A", "B", "C", "A", "B", "A", "B", "A">>
DefaultPattern == <<"A", "B", "A", "B", "A">>
DefaultPrime == 101
DefaultBase == 256

----------------------------------------------------------------------------
(* Huffman.  A string is the sequence of its UTF-16 code units; a character  *)
(* (a key of the frequency and code tables) is a string of one code unit, or *)
(* of two for a character outside the basic plane.                           *)

\* the two code units of one character outside the basic plane
HighSurrogate == "U+D83D"
LowSurrogate == "U+DE00"

\* null for a char or a child (a character is never the empty string), and a
\* child that is present
None == <<>>
Some(node) == <<node>>

\* for (const char of text): the string's characters, a surrogate pair being one
RECURSIVE CodePoints(_)
CodePoints(str) ==
  IF str = <<>> THEN <<>>
  ELSE IF Len(str) >= 2 /\ str[1] = HighSurrogate /\ str[2] = LowSurrogate
       THEN <<SubSeq(str, 1, 2)>> \o CodePoints(SubSeq(str, 3, Len(str)))
       ELSE <<SubSeq(str, 1, 1)>> \o CodePoints(Tail(str))

\* freq[char] = (freq[char] || 0) + 1, the object's entries in insertion order
RECURSIVE CountChar(_, _)
CountChar(freq, char) ==
  IF freq = <<>> THEN <<[char |-> char, freq |-> 1]>>
  ELSE IF freq[1].char = char
       THEN <<[freq[1] EXCEPT !.freq = @ + 1]>> \o Tail(freq)
       ELSE <<freq[1]>> \o CountChar(Tail(freq), char)

RECURSIVE CountChars(_, _)
CountChars(freq, chars) ==
  IF chars = <<>> THEN freq
  ELSE CountChars(CountChar(freq, chars[1]), Tail(chars))

calculateFrequencies(str) == CountChars(<<>>, CodePoints(str))

\* Object.entries(freq).map(([char, frequency], index) => leaf)
RECURSIVE HuffmanLeaves(_, _)
HuffmanLeaves(freq, index) ==
  IF freq = <<>> THEN <<>>
  ELSE <<[char |-> freq[1].char, freq |-> freq[1].freq,
          left |-> None, right |-> None, id |-> index]>>
         \o HuffmanLeaves(Tail(freq), index + 1)

\* Array.prototype.sort((a, b) => a.freq - b.freq), which is stable
RECURSIVE InsertByFreq(_, _)
InsertByFreq(sorted, node) ==
  IF sorted = <<>> THEN <<node>>
  ELSE IF sorted[1].freq <= node.freq
       THEN <<sorted[1]>> \o InsertByFreq(Tail(sorted), node)
       ELSE <<node>> \o sorted

RECURSIVE SortByFreq(_)
SortByFreq(nodes) ==
  IF nodes = <<>> THEN <<>>
  ELSE InsertByFreq(SortByFreq(SubSeq(nodes, 1, Len(nodes) - 1)), Last(nodes))

\* the code table generateHuffmanCodes fills below root; a later write to a
\* key replaces an earlier one
RECURSIVE generateHuffmanCodes(_, _)
generateHuffmanCodes(root, code) ==
  IF root.char # None
  THEN root.char :> (IF code = <<>> THEN <<"0">> ELSE code)
  ELSE generateHuffmanCodes(root.right[1], Append(code, "1"))
         @@ generateHuffmanCodes(root.left[1], Append(code, "0"))

\* text.split('').map(char => huffmanCodes[char]).join(''): the codes of the
\* code units; join writes undefined as the empty string
RECURSIVE HuffmanEncode(_, _)
HuffmanEncode(str, huffmanCodes) ==
  IF str = <<>> THEN <<>>
  ELSE (IF <<str[1]>> \in DOMAIN huffmanCodes THEN huffmanCodes[<<str[1]>>] ELSE <<>>)
         \o HuffmanEncode(Tail(str), huffmanCodes)

\* codes is None where the step has no codes property
HuffmanStep(st, description, nodes, huffmanCodes) ==
  Push(st, [description |-> description, nodes |-> nodes, codes |-> huffmanCodes])

\* Fault: the merged node is pushed to the end of the queue and the queue is
\* not sorted again.
RECURSIVE HuffmanLoopUnsorted(_)
HuffmanLoopUnsorted(st) ==
  IF ~(Len(st.queue) > 1) THEN st
  ELSE HuffmanLoopUnsorted(
         HuffmanStep([st EXCEPT
                        !.queue = Append(SubSeq(st.queue, 3, Len(st.queue)),
                                         [char |-> None,
                                          freq |-> st.queue[1].freq + st.queue[2].freq,
                                          left |-> Some(st.queue[1]),
                                          right |-> Some(st.queue[2]),
                                          id |-> st.nodeIdCounter]),
                        !.nodeIdCounter = @ + 1],
                     "Merge nodes",
                     Append(SubSeq(st.queue, 3, Len(st.queue)),
                            [char |-> None,
                             freq |-> st.queue[1].freq + st.queue[2].freq,
                             left |-> Some(st.queue[1]),
                             right |-> Some(st.queue[2]),
                             id |-> st.nodeIdCounter]),
                     None))

\* while (queue.length > 1) { ... }
RECURSIVE HuffmanLoop(_)
HuffmanLoop(st) ==
  IF ~(Len(st.queue) > 1) THEN st
  ELSE LET left == st.queue[1]
           right == st.queue[2]
           merged == [char |-> None, freq |-> left.freq + right.freq,
                      left |-> Some(left), right |-> Some(right),
                      id |-> st.nodeIdCounter]
           queue == SortByFreq(Append(SubSeq(st.queue, 3, Len(st.queue)), merged))
       IN  HuffmanLoop(HuffmanStep([st EXCEPT !.queue = queue,
                                              !.nodeIdCounter = @ + 1],
                                   "Merge nodes", queue, None))

buildHuffmanTree(str) ==
  LET freq == calculateFrequencies(str)
      nodes == HuffmanLeaves(freq, 0)
      st0 == [queue |-> <<>>, nodeIdCounter |-> Len(nodes),
              steps |-> <<>>, stepCounter |-> 1]
      init == HuffmanStep(st0, "Initialize leaf nodes", nodes, None)
      looped == HuffmanLoop([init EXCEPT !.queue = SortByFreq(nodes)])
      root == looped.queue[1]
      huffmanCodes == generateHuffmanCodes(root, <<>>)
      done == HuffmanStep(looped, "Huffman tree construction complete", <<root>>,
                          huffmanCodes)
  IN  [steps |-> done.steps,
       frequencies |-> freq,
       codes |-> huffmanCodes,
       encodedText |-> HuffmanEncode(str, huffmanCodes)]

DefaultInput == <<"A", "B", "R", "A", "C", "A", "D", "A", "B", "R", "A">>

----------------------------------------------------------------------------
(* The component state and the playback controller.  The nine components   *)
(* repeat the same controller code; algo says which one is mounted.        *)

\* Index.selectedAlgorithm before the first selection
NoAlgorithm == ""

GraphAlgos == {"dijkstra", "bellmanford", "floydwarshall", "kruskal", "prim"}
StringAlgos == {"naive", "kmp", "rabinkarp"}
Algos == GraphAlgos \cup StringAlgos \cup {"huffman"}

\* str.trim(): leading and trailing blanks removed
RECURSIVE TrimLeft(_)
TrimLeft(str) ==
  IF str # <<>> /\ str[1] = " " THEN TrimLeft(Tail(str)) ELSE str

RECURSIVE TrimRight(_)
TrimRight(str) ==
  IF str # <<>> /\ Last(str) = " " THEN TrimRight(SubSeq(str, 1, Len(str) - 1)) ELSE str

Trim(str) == TrimRight(TrimLeft(str))

\* the useState initial values of the component a
DefaultVertices(a) ==
  CASE a = "bellmanford" -> 5
    [] a = "floydwarshall" -> 4
    [] OTHER -> 6

DefaultEdges(a) ==
  CASE a = "bellmanford" -> DefaultBellmanFordEdges
    [] a = "floydwarshall" -> DefaultFloydWarshallEdges
    [] OTHER -> DefaultUndirectedEdges

\* the controller state a handler's closure reads
Snapshot ==
  [steps |-> steps, currentStep |-> currentStep, isRunning |-> isRunning,
   isAutoPlaying |-> isAutoPlaying, timers |-> timers]

\* the controller state of a freshly mounted component
InitialSnapshot ==
  [steps |-> <<>>, currentStep |-> 0, isRunning |-> FALSE,
   isAutoPlaying |-> FALSE, timers |-> {}]

\* the state of a freshly mounted component, with the given inputs
Mounted(a, n, es, s, txt, pat, p, b) ==
  /\ algo = a
  /\ vertices = n
  /\ edges = es
  /\ startVertex = s
  /\ text = txt
  /\ pattern = pat
  /\ prime = p
  /\ base = b
  /\ steps = <<>>
  /\ currentStep = 0
  /\ isRunning = FALSE
  /\ isAutoPlaying = FALSE
  /\ matches = <<>>
  /\ mstWeight = 0
  /\ totalComparisons = 0
  /\ failureFunction = <<>>
  /\ hashTable = <<>>
  /\ frequencies = <<>>
  /\ codes = <<>>
  /\ encodedText = <<>>
  /\ intervalRef = Null
  /\ timers = {}
  /\ lastCall = "mount"
  /\ nextsSinceRun = Null
  /\ before = InitialSnapshot
  /\ userActive = TRUE

\* the condition of runVisualization
CanRun ==
  IF algo \in GraphAlgos THEN vertices > 1 /\ Len(edges) > 0
  ELSE IF algo = "rabinkarp"
       THEN Trim(text) # <<>> /\ Trim(pattern) # <<>> /\ prime > 0 /\ base > 0
       ELSE IF algo = "huffman"
            THEN Trim(text) # <<>>
            ELSE Trim(text) # <<>> /\ Trim(pattern) # <<>>

\* setInterval's return value: an id no active interval has.  Ids are only
\* ever compared for equality, so the least unused one stands for a new one.
FreshId(tms, ref) ==
  CHOOSE i \in 1..(Cardinality(tms) + 2) :
    /\ i # ref
    /\ \A t \in tms : t.id # i
    /\ \A j \in 1..(i - 1) : j = ref \/ \E t \in tms : t.id = j

\* clearInterval(id)
ClearInterval(tms, id) == {t \in tms : t.id # id}

\* Fault: the effect returns no cleanup, so an interval started by an earlier
\* run of the effect is never cleared when a dependency changes.
EffectCleanupMissing(ref, tms) == tms

\* the cleanup function returned by the effect
EffectCleanup(ref, tms) == IF ref # Null THEN ClearInterval(tms, ref) ELSE tms

\* Fault: the id that setInterval returns is not stored in the ref, so no
\* cleanup can clear the interval.
EffectBodyDropsId(auto, run, len, ref, tms) ==
  IF auto /\ run
  THEN [ref |-> ref, timers |-> tms \cup {[id |-> FreshId(tms, ref), len |-> len]}]
  ELSE IF ref # Null
       THEN [ref |-> Null, timers |-> ClearInterval(tms, ref)]
       ELSE [ref |-> ref, timers |-> tms]

\* the body of the effect, run with the state of the new render
EffectBody(auto, run, len, ref, tms) ==
  IF auto /\ run
  THEN LET id == FreshId(tms, ref)
       IN  [ref |-> id, timers |-> tms \cup {[id |-> id, len |-> len]}]
  ELSE IF ref # Null
       THEN [ref |-> Null, timers |-> ClearInterval(tms, ref)]
       ELSE [ref |-> ref, timers |-> tms]

\* The render after a handler: when a dependency of the effect
\* ([isAutoPlaying, isRunning, steps.length]) changed, the previous effect's
\* cleanup runs and then the effect; ref and tms are the ref and the
\* intervals as the handler left them.
Rerender(ref, tms) ==
  IF <<isAutoPlaying', isRunning', Len(steps')>> # <<isAutoPlaying, isRunning, Len(steps)>>
  THEN LET r == EffectBody(isAutoPlaying', isRunning', Len(steps'), ref,
                           EffectCleanup(ref, tms))
       IN  intervalRef' = r.ref /\ timers' = r.timers
  ELSE intervalRef' = ref /\ timers' = tms

\* what the engine of the mounted component hands to the setters
EngineSteps ==
  CASE algo = "dijkstra" -> dijkstraAlgorithm(vertices, edges, startVertex)
    [] algo = "bellmanford" -> bellmanFordAlgorithm(vertices, edges, startVertex)
    [] algo = "floydwarshall" -> floydWarshallAlgorithm(vertices, edges)
    [] algo = "kruskal" -> kruskalMST(vertices, edges)
    [] algo = "prim" -> primMST(vertices, edges, startVertex)
    [] algo = "naive" -> naiveSearch(Trim(text), Trim(pattern)).steps
    [] algo = "kmp" -> kmpSearch(Trim(text), Trim(pattern)).steps
    [] algo = "rabinkarp" -> rabinKarpSearch(Trim(text), Trim(pattern), base, prime).steps
    [] algo = "huffman" -> buildHuffmanTree(Trim(text)).steps

EngineResults ==
  CASE algo \in {"kruskal", "prim"} ->
         /\ mstWeight' = Last(steps').totalWeight
         /\ UNCHANGED <<matches, totalComparisons, failureFunction, hashTable, huffmanVars>>
    [] algo = "naive" ->
         LET r == naiveSearch(Trim(text), Trim(pattern))
         IN  /\ matches' = r.matches
             /\ totalComparisons' = r.totalComparisons
             /\ UNCHANGED <<mstWeight, failureFunction, hashTable, huffmanVars>>
    [] algo = "kmp" ->
         LET r == kmpSearch(Trim(text), Trim(pattern))
         IN  /\ matches' = r.matches
             /\ failureFunction' = r.failureFunction
             /\ UNCHANGED <<mstWeight, totalComparisons, hashTable, huffmanVars>>
    [] algo = "rabinkarp" ->
         LET r == rabinKarpSearch(Trim(text), Trim(pattern), base, prime)
         IN  /\ matches' = r.matches
             /\ hashTable' = IF Len(Trim(pattern)) > Len(Trim(text)) THEN hashTable ELSE r.hashTable
             /\ UNCHANGED <<mstWeight, totalComparisons, failureFunction, huffmanVars>>
    [] algo = "huffman" ->
         LET r == buildHuffmanTree(Trim(text))
         IN  /\ frequencies' = r.frequencies
             /\ codes' = r.codes
             /\ encodedText' = r.encodedText
             /\ UNCHANGED <<matches, mstWeight, totalComparisons, failureFunction,
                            hashTable>>
    [] OTHER -> UNCHANGED resultVars

\* the edges all end at vertices below the vertex count
EdgesInRange ==
  \A k \in 1..Len(edges) :
    edges[k].from \in 0..(vertices - 1) /\ edges[k].to \in 0..(vertices - 1)

\* dijkstraAlgorithm throws a TypeError at adjList[edge.from].push or
\* adjList[edge.to].push when adjList has no list for the vertex; the handler
\* ends there, before any setter is called
EngineThrows == algo = "dijkstra" /\ ~EdgesInRange

\* Fault: the handler does not call setCurrentStep(0).
runVisualizationKeepsIndex ==
  /\ userActive
  /\ algo \in Algos
  /\ IF CanRun /\ ~EngineThrows
     THEN /\ steps' = EngineSteps
          /\ EngineResults
          /\ currentStep' = currentStep
          /\ isRunning' = TRUE
          /\ nextsSinceRun' = 0
     ELSE /\ UNCHANGED <<steps, currentStep, isRunning, resultVars>>
          /\ nextsSinceRun' = Null
  /\ UNCHANGED isAutoPlaying
  /\ Rerender(intervalRef, timers)
  /\ lastCall' = "runVisualization"
  /\ before' = Snapshot
  /\ UNCHANGED <<inputVars, userActive>>

runVisualization ==
  /\ userActive
  /\ algo \in Algos
  /\ IF CanRun /\ ~EngineThrows
     THEN /\ steps' = EngineSteps
          /\ EngineResults
          /\ currentStep' = 0
          /\ isRunning' = TRUE
          /\ nextsSinceRun' = 0
     ELSE /\ UNCHANGED <<steps, currentStep, isRunning, resultVars>>
          /\ nextsSinceRun' = Null
  /\ UNCHANGED isAutoPlaying
  /\ Rerender(intervalRef, timers)
  /\ lastCall' = "runVisualization"
  /\ before' = Snapshot
  /\ UNCHANGED <<inputVars, userActive>>

toggleAutoPlay ==
  /\ userActive
  /\ algo \in Algos
  /\ isAutoPlaying' = ~isAutoPlaying
  /\ UNCHANGED <<steps, currentStep, isRunning, resultVars>>
  /\ Rerender(intervalRef, timers)
  /\ lastCall' = "toggleAutoPlay"
  /\ before' = Snapshot
  /\ nextsSinceRun' = Null
  /\ UNCHANGED <<inputVars, userActive>>

\* Fault: the callback tests prev > steps.length - 1, so the tick that fires
\* on the last step still advances.
TickOvershoots(t) ==
  /\ IF currentStep > t.len - 1
     THEN isAutoPlaying' = FALSE /\ currentStep' = currentStep
     ELSE isAutoPlaying' = isAutoPlaying /\ currentStep' = currentStep + 1
  /\ UNCHANGED <<steps, isRunning, resultVars>>
  /\ Rerender(intervalRef, timers)
  /\ lastCall' = "tick"
  /\ before' = Snapshot
  /\ nextsSinceRun' = Null
  /\ UNCHANGED <<inputVars, userActive>>

\* the interval callback of the active interval t
Tick(t) ==
  /\ IF currentStep >= t.len - 1
     THEN isAutoPlaying' = FALSE /\ currentStep' = currentStep
     ELSE isAutoPlaying' = isAutoPlaying /\ currentStep' = currentStep + 1
  /\ UNCHANGED <<steps, isRunning, resultVars>>
  /\ Rerender(intervalRef, timers)
  /\ lastCall' = "tick"
  /\ before' = Snapshot
  /\ nextsSinceRun' = Null
  /\ UNCHANGED <<inputVars, userActive>>

TimerTick == \E t \in timers : Tick(t)

\* Fault: the handler tests currentStep <= steps.length - 1, so it steps past
\* the last step.
nextStepSkips ==
  /\ userActive
  /\ algo \in Algos
  /\ IF currentStep <= Len(steps) - 1
     THEN currentStep' = currentStep + 1 /\ isRunning' = isRunning
     ELSE currentStep' = currentStep /\ isRunning' = FALSE
  /\ UNCHANGED <<steps, isAutoPlaying, resultVars>>
  /\ Rerender(intervalRef, timers)
  /\ lastCall' = "nextStep"
  /\ before' = Snapshot
  /\ nextsSinceRun' = IF nextsSinceRun # Null /\ nextsSinceRun < Len(steps)
                      THEN nextsSinceRun + 1 ELSE Null
  /\ UNCHANGED <<inputVars, userActive>>

nextStep ==
  /\ userActive
  /\ algo \in Algos
  /\ IF currentStep < Len(steps) - 1
     THEN currentStep' = currentStep + 1 /\ isRunning' = isRunning
     ELSE currentStep' = currentStep /\ isRunning' = FALSE
  /\ UNCHANGED <<steps, isAutoPlaying, resultVars>>
  /\ Rerender(intervalRef, timers)
  /\ lastCall' = "nextStep"
  /\ before' = Snapshot
  /\ nextsSinceRun' = IF nextsSinceRun # Null /\ nextsSinceRun < Len(steps)
                      THEN nextsSinceRun + 1 ELSE Null
  /\ UNCHANGED <<inputVars, userActive>>

\* Fault: the handler decrements without testing currentStep > 0.
prevStepUnguarded ==
  /\ userActive
  /\ algo \in Algos
  /\ currentStep' = currentStep - 1
  /\ UNCHANGED <<steps, isRunning, isAutoPlaying, resultVars>>
  /\ Rerender(intervalRef, timers)
  /\ lastCall' = "prevStep"
  /\ before' = Snapshot
  /\ nextsSinceRun' = Null
  /\ UNCHANGED <<inputVars, userActive>>

prevStep ==
  /\ userActive
  /\ algo \in Algos
  /\ currentStep' = IF currentStep > 0 THEN currentStep - 1 ELSE currentStep
  /\ UNCHANGED <<steps, isRunning, isAutoPlaying, resultVars>>
  /\ Rerender(intervalRef, timers)
  /\ lastCall' = "prevStep"
  /\ before' = Snapshot
  /\ nextsSinceRun' = Null
  /\ UNCHANGED <<inputVars, userActive>>

\* if (intervalRef.current) clearInterval(intervalRef.current)
ResetTimers == IF intervalRef # Null THEN ClearInterval(timers, intervalRef) ELSE timers

reset ==
  /\ userActive
  /\ algo \in Algos
  /\ currentStep' = 0
  /\ isRunning' = FALSE
  /\ isAutoPlaying' = FALSE
  /\ steps' = <<>>
  /\ matches' = <<>>
  /\ mstWeight' = 0
  /\ totalComparisons' = 0
  /\ failureFunction' = <<>>
  /\ hashTable' = <<>>
  /\ frequencies' = <<>>
  /\ codes' = <<>>
  /\ encodedText' = <<>>
  /\ Rerender(intervalRef, ResetTimers)
  /\ lastCall' = "reset"
  /\ before' = Snapshot
  /\ nextsSinceRun' = Null
  /\ UNCHANGED <<inputVars, userActive>>

\* onChange of the text input: setText(e.target.value.toUpperCase())
setText(txt) ==
  /\ userActive
  /\ algo \in StringAlgos \cup {"huffman"}
  /\ text' = txt
  /\ lastCall' = "setText"
  /\ before' = Snapshot
  /\ nextsSinceRun' = Null
  /\ UNCHANGED <<algo, vertices, edges, startVertex, pattern, prime, base, steps,
                 currentStep, isRunning, isAutoPlaying, resultVars, intervalRef,
                 timers, userActive>>

\* the condition under which addEdge appends the edge from -> to
AddEdgeAccepts(a, es, from, to) ==
  /\ from # to
  /\ ~\E k \in 1..Len(es) :
        \/ es[k].from = from /\ es[k].to = to
        \/ /\ a \notin {"bellmanford", "floydwarshall"}
           /\ es[k].from = to /\ es[k].to = from

\* onChange of the vertices input: setVertices(parseInt(e.target.value) || 3),
\* n the number typed (min and max only bound the spinner); the edges stay
setVertices(n) ==
  /\ userActive
  /\ algo \in GraphAlgos
  /\ vertices' = (IF n = 0 THEN 3 ELSE n)
  /\ lastCall' = "setVertices"
  /\ before' = Snapshot
  /\ nextsSinceRun' = Null
  /\ UNCHANGED <<algo, edges, startVertex, text, pattern, prime, base, steps,
                 currentStep, isRunning, isAutoPlaying, resultVars, intervalRef,
                 timers, userActive>>

\* addEdge, with the numbers Math.random gave: from and to below vertices
addEdge(from, to, weight) ==
  /\ userActive
  /\ algo \in GraphAlgos
  /\ from \in 0..(vertices - 1)
  /\ to \in 0..(vertices - 1)
  /\ edges' = IF AddEdgeAccepts(algo, edges, from, to)
              THEN Append(edges, Edge(from, to, weight))
              ELSE edges
  /\ lastCall' = "addEdge"
  /\ before' = Snapshot
  /\ nextsSinceRun' = Null
  /\ UNCHANGED <<algo, vertices, startVertex, text, pattern, prime, base, steps,
                 currentStep, isRunning, isAutoPlaying, resultVars, intervalRef,
                 timers, userActive>>

removeLastEdge ==
  /\ userActive
  /\ algo \in GraphAlgos
  /\ edges' = IF Len(edges) > 0 THEN SubSeq(edges, 1, Len(edges) - 1) ELSE edges
  /\ lastCall' = "removeLastEdge"
  /\ before' = Snapshot
  /\ nextsSinceRun' = Null
  /\ UNCHANGED <<algo, vertices, startVertex, text, pattern, prime, base, steps,
                 currentStep, isRunning, isAutoPlaying, resultVars, intervalRef,
                 timers, userActive>>

\* the user stops interacting; the intervals keep firing
userLeaves ==
  /\ userActive
  /\ userActive' = FALSE
  /\ UNCHANGED <<inputVars, steps, currentStep, isRunning, isAutoPlaying, resultVars,
                 intervalRef, timers, lastCall, nextsSinceRun, before>>

\* Index.setSelectedAlgorithm(a): the mounted component is torn down (the
\* effect's cleanup runs) and component a is mounted with its initial state.
\* An interval the cleanup does not clear would stay in timers.
selectAlgorithm(a) ==
  /\ userActive
  /\ a # algo
  /\ algo' = a
  /\ vertices' = DefaultVertices(a)
  /\ edges' = DefaultEdges(a)
  /\ startVertex' = 0
  /\ text' = (IF a = "huffman" THEN DefaultInput ELSE DefaultText)
  /\ pattern' = DefaultPattern
  /\ prime' = DefaultPrime
  /\ base' = DefaultBase
  /\ steps' = <<>>
  /\ currentStep' = 0
  /\ isRunning' = FALSE
  /\ isAutoPlaying' = FALSE
  /\ matches' = <<>>
  /\ mstWeight' = 0
  /\ totalComparisons' = 0
  /\ failureFunction' = <<>>
  /\ hashTable' = <<>>
  /\ frequencies' = <<>>
  /\ codes' = <<>>
  /\ encodedText' = <<>>
  /\ intervalRef' = Null
  /\ timers' = EffectCleanup(intervalRef, timers)
  /\ lastCall' = "mount"
  /\ before' = InitialSnapshot
  /\ nextsSinceRun' = Null
  /\ UNCHANGED userActive

----------------------------------------------------------------------------
(* Specifications *)

\* Playback: a component mounted with its initial state; the user runs,
\* steps, toggles auto-play, resets, edits the text and switches component.
ShortText == <<"A", "B">>
Texts == {DefaultText, ShortText}

\* Index: useState("") for selectedAlgorithm, no visualizer mounted yet
Init ==
  Mounted(NoAlgorithm, DefaultVertices(NoAlgorithm), DefaultEdges(NoAlgorithm), 0,
          DefaultText, DefaultPattern, DefaultPrime, DefaultBase)

Next ==
  \/ runVisualization
  \/ toggleAutoPlay
  \/ TimerTick
  \/ nextStep
  \/ prevStep
  \/ reset
  \/ \E txt \in Texts : setText(txt)
  \/ \E a \in Algos : selectAlgorithm(a)
  \/ userLeaves

Spec == Init /\ [][Next]_vars

\* An active interval fires again and again until it is cleared.
FairSpec == Spec /\ WF_vars(TimerTick)

----------------------------------------------------------------------------
(* Engines: a component mounted on an input drawn from the bounded inputs,  *)
(* run and reset.                                                           *)

PositiveWeights == {1, 2, 4}
SignedWeights == {-2, -1, 1}
Alphabet == {"A", "B"}

\* the weights addEdge draws, cut down to a few
AddEdgeWeights(a) == IF a = "bellmanford" THEN SignedWeights ELSE PositiveWeights

\* the edge lists k accepted addEdge calls build from the empty list
RECURSIVE EdgeLists(_, _, _)
EdgeLists(a, n, k) ==
  IF k = 0 THEN {<<>>}
  ELSE UNION { { Append(es, Edge(from, to, w)) :
                   <<from, to, w>> \in
                     { x \in (0..(n - 1)) \X (0..(n - 1)) \X AddEdgeWeights(a) :
                         AddEdgeAccepts(a, es, x[1], x[2]) } } :
               es \in EdgeLists(a, n, k - 1) }

\* the start vertices the component a offers
StartVertices(a, n) ==
  IF a \in {"dijkstra", "bellmanford", "prim"} THEN 0..(n - 1) ELSE {0}

\* the strings of 1..k characters
RECURSIVE Strings(_)
Strings(k) ==
  IF k = 0 THEN {}
  ELSE LET shorter == Strings(k - 1)
       IN  {<<c>> : c \in Alphabet}
             \cup shorter
             \cup {Append(str, c) : str \in shorter, c \in Alphabet}

\* the prime and base typed into the Rabin-Karp inputs: the defaults, a small
\* pair under which different windows share a hash, and a large pair
HashParameters(a) ==
  IF a = "rabinkarp"
  THEN {[prime |-> DefaultPrime, base |-> DefaultBase],
        [prime |-> 3, base |-> 2],
        [prime |-> 1000000007, base |-> 1000000000]}
  ELSE {[prime |-> DefaultPrime, base |-> DefaultBase]}

\* the characters typed into the Huffman input: three of the basic plane and
\* one outside it
HuffmanCharacters == {<<"A">>, <<"B">>, <<"C">>, <<HighSurrogate, LowSurrogate>>}

\* the texts of 1..k characters
RECURSIVE HuffmanTexts(_)
HuffmanTexts(k) ==
  IF k = 0 THEN {}
  ELSE LET shorter == HuffmanTexts(k - 1)
       IN  HuffmanCharacters
             \cup shorter
             \cup {str \o c : str \in shorter, c \in HuffmanCharacters}

InitEngines ==
  \E a \in Algos :
    \/ /\ a \in GraphAlgos
       /\ \/ \E n \in 2..MaxVertices, k \in 0..MaxEdges :
               \E es \in EdgeLists(a, n, k), s \in StartVertices(a, n) :
                 Mounted(a, n, es, s, DefaultText, DefaultPattern, DefaultPrime,
                         DefaultBase)
          \/ \E s \in StartVertices(a, DefaultVertices(a)) :
               Mounted(a, DefaultVertices(a), DefaultEdges(a), s, DefaultText,
                       DefaultPattern, DefaultPrime, DefaultBase)
    \/ /\ a \in StringAlgos
       /\ \E txt \in Strings(MaxTextLen) \cup {DefaultText},
             pat \in Strings(MaxTextLen) \cup {DefaultPattern},
             h \in HashParameters(a) :
            Mounted(a, DefaultVertices(a), DefaultEdges(a), 0, txt, pat,
                    h.prime, h.base)
    \/ /\ a = "huffman"
       /\ \E txt \in HuffmanTexts(MaxTextLen) \cup {DefaultInput} :
            Mounted(a, DefaultVertices(a), DefaultEdges(a), 0, txt, DefaultPattern,
                    DefaultPrime, DefaultBase)

NextEngines ==
  \/ runVisualization
  \/ reset

SpecEngines == InitEngines /\ [][NextEngines]_vars

----------------------------------------------------------------------------
(* Graph editing: the Dijkstra component with its initial graph, edited and  *)
(* run.                                                                      *)

InitEdits ==
  Mounted("dijkstra", DefaultVertices("dijkstra"), DefaultEdges("dijkstra"), 0,
          DefaultText, DefaultPattern, DefaultPrime, DefaultBase)

\* the numbers typed into the vertices input
VertexInputs == {0, MaxVertices, DefaultVertices("dijkstra")}

\* The numbers addEdge draws are cut down to the first MaxVertices vertices
\* and one weight, and the list is grown to MaxEdges edges at most.
NextEdits ==
  \/ \E n \in VertexInputs : setVertices(n)
  \/ \E from, to \in 0..(MaxVertices - 1) :
       Len(edges) < MaxEdges /\ addEdge(from, to, 1)
  \/ removeLastEdge
  \/ runVisualization

SpecEdits == InitEdits /\ [][NextEdits]_vars

----------------------------------------------------------------------------
(* Playback controller: properties *)

\* the last handler left the index, the trace and the auto-playing flag alone
KeptIndexTraceAuto ==
  /\ currentStep = before.currentStep
  /\ steps = before.steps
  /\ isAutoPlaying = before.isAutoPlaying

\* C1 (as stated): after a run loaded N >= 1 steps, N-1 nextStep calls leave
\* the index on the last step, and a nextStep call on the last step changes
\* none of the index, the trace, the running flag and the auto-playing flag.
C1_NextStepAtLastStepIsNoOp ==
  /\ (nextsSinceRun # Null /\ steps # <<>> /\ nextsSinceRun <= Len(steps) - 1
        => currentStep = nextsSinceRun)
  /\ (lastCall = "nextStep" /\ before.steps # <<>>
        /\ before.currentStep >= Len(before.steps) - 1
        => KeptIndexTraceAuto /\ isRunning = before.isRunning)

\* C1 (amended): after a run loaded N >= 1 steps, N-1 nextStep calls leave the
\* index on the last step, and a nextStep call on the last step leaves the
\* index, the trace and the auto-playing flag unchanged and sets the running
\* flag to false.
C1_NextStepAtLastStepEndsRun ==
  /\ (nextsSinceRun # Null /\ steps # <<>> /\ nextsSinceRun <= Len(steps) - 1
        => currentStep = nextsSinceRun)
  /\ (lastCall = "nextStep" /\ before.steps # <<>>
        /\ before.currentStep >= Len(before.steps) - 1
        => KeptIndexTraceAuto /\ ~isRunning)

\* C1 witness: a run, N-1 nextStep calls and one more, the last one made on
\* the last step of a trace of several steps while the run was on.
C1_Witness ==
  /\ lastCall = "nextStep"
  /\ nextsSinceRun = Len(steps)
  /\ Len(steps) > 1
  /\ before.currentStep = Len(steps) - 1
  /\ before.isRunning

\* C2: a nextStep or prevStep call made while auto-play is on turns the
\* auto-playing flag off and leaves no interval active.
C2_ManualStepCancelsAutoPlay ==
  lastCall \in {"nextStep", "prevStep"} /\ before.isAutoPlaying /\ before.timers # {}
    => ~isAutoPlaying /\ timers = {}

\* what the interval callback does, in terms of the state it started in
TickBelowLast ==
  before.currentStep < Len(before.steps) - 1
    => /\ currentStep = before.currentStep + 1
       /\ isAutoPlaying = before.isAutoPlaying

TickAtLast ==
  before.currentStep >= Len(before.steps) - 1
    => /\ currentStep = before.currentStep
       /\ ~isAutoPlaying
       /\ timers = {}

\* auto-play is on for a loaded trace and only timer ticks occur from here on
OnlyTicksFromHere ==
  ~userActive /\ isAutoPlaying /\ isRunning /\ steps # <<>>

AutoPlayFinished ==
  currentStep = Len(steps) - 1 /\ ~isAutoPlaying /\ timers = {}

\* C3 (as stated): with auto-play on for a loaded trace of N steps and only
\* fair timer ticks, every tick advances the index by exactly one, the index
\* never exceeds N-1, and eventually the index is N-1 with the auto-playing
\* flag false and the timer cancelled.
C3_EveryTickAdvances ==
  /\ [](lastCall = "tick" /\ before.steps # <<>>
          => currentStep = before.currentStep + 1 /\ currentStep <= Len(steps) - 1)
  /\ (OnlyTicksFromHere ~> AutoPlayFinished)

\* C3 (amended): with auto-play on for a loaded trace of N steps and only
\* fair timer ticks, every tick that fires below the last step advances the
\* index by exactly one, the tick that fires on the last step leaves the index
\* where it is, turns the auto-playing flag off and the timer is cancelled,
\* the index never exceeds N-1, and eventually the index is N-1 with the
\* auto-playing flag false and the timer cancelled.
C3_TicksAdvanceUntilLastStep ==
  /\ [](lastCall = "tick" /\ before.steps # <<>>
          => TickBelowLast /\ TickAtLast /\ currentStep <= Len(steps) - 1)
  /\ (OnlyTicksFromHere ~> AutoPlayFinished)

\* C3 witness: the user has left, ticks alone carried a trace of several
\* steps to its last step, and the tick fired there ended auto-play.
C3_Witness ==
  /\ ~userActive
  /\ lastCall = "tick"
  /\ Len(steps) > 1
  /\ before.currentStep = Len(steps) - 1
  /\ before.isAutoPlaying
  /\ AutoPlayFinished

\* C4: after reset, called in any state, the trace is empty, the index is 0,
\* the running and auto-playing flags are false and no interval is active.
C4_ResetRestoresInitialState ==
  lastCall = "reset"
    => /\ steps = <<>>
       /\ currentStep = 0
       /\ ~isRunning
       /\ ~isAutoPlaying
       /\ timers = {}
       /\ intervalRef = Null

\* C4 witness: reset called while auto-play was running in the middle of a
\* trace, with its interval active.
C4_Witness ==
  /\ lastCall = "reset"
  /\ before.isAutoPlaying
  /\ before.isRunning
  /\ before.timers # {}
  /\ before.currentStep > 0
  /\ before.currentStep < Len(before.steps) - 1

\* C5 (as stated): nextStep and prevStep called on an empty trace leave the
\* index, the trace, the running flag and the auto-playing flag unchanged.
C5_StepOnEmptyTraceIsNoOp ==
  lastCall \in {"nextStep", "prevStep"} /\ before.steps = <<>>
    => KeptIndexTraceAuto /\ isRunning = before.isRunning

\* C5 (amended): nextStep and prevStep called on an empty trace leave the
\* index, the trace and the auto-playing flag unchanged; prevStep leaves the
\* running flag unchanged too, and nextStep sets it to false (a change only
\* after a run that produced an empty trace).
C5_StepOnEmptyTraceKeepsIndex ==
  lastCall \in {"nextStep", "prevStep"} /\ before.steps = <<>>
    => /\ KeptIndexTraceAuto
       /\ (lastCall = "prevStep" => isRunning = before.isRunning)
       /\ (lastCall = "nextStep" => ~isRunning)

\* C5 witness: nextStep called after a Rabin-Karp run with the pattern longer
\* than the text, which left the run on with an empty trace.
C5_Witness ==
  /\ algo = "rabinkarp"
  /\ lastCall = "nextStep"
  /\ before.steps = <<>>
  /\ before.isRunning
  /\ Len(Trim(pattern)) > Len(Trim(text))

\* C6: when the pattern is longer than the text, the trace the engine of a
\* string component hands to the controller is empty.
C6_LongPatternGivesEmptyTrace ==
  /\ algo \in StringAlgos
  /\ lastCall = "runVisualization"
  /\ CanRun
  /\ Len(Trim(pattern)) > Len(Trim(text))
  => steps = <<>>

----------------------------------------------------------------------------
(* Engines: reference notions the properties are stated against *)

\* the arcs of a directed edge list, and of an edge list walked both ways
Arcs(es) == {es[k] : k \in 1..Len(es)}

UndirectedArcs(es) == Arcs(es) \cup {Reversed(a) : a \in Arcs(es)}

\* the vertices reached from the set S along at most k arcs
RECURSIVE ReachWithin(_, _, _)
ReachWithin(arcs, S, k) ==
  IF k = 0 THEN S
  ELSE ReachWithin(arcs, S \cup {a.to : a \in {b \in arcs : b.from \in S}}, k - 1)

Reachable(n, arcs, s) == ReachWithin(arcs, {s}, n)

SetMin(S) == CHOOSE x \in S : \A y \in S : x <= y

\* the least weight of a walk from u to v of at most k arcs, Infinity if none
RECURSIVE MinWalk(_, _, _, _)
MinWalk(arcs, u, v, k) ==
  LET here == IF u = v THEN 0 ELSE Infinity
      onward == { [w |-> a.weight, rest |-> MinWalk(arcs, a.to, v, k - 1)] :
                    a \in {b \in arcs : b.from = u} }
  IN  IF k = 0 THEN here
      ELSE SetMin({here} \cup {x.w + x.rest : x \in {y \in onward : y.rest # Infinity}})

\* the shortest-path distances from s, where no negative cycle is reachable
ShortestDistances(n, arcs, s) == [v \in 0..(n - 1) |-> MinWalk(arcs, s, v, n - 1)]

\* some cycle through v has negative weight
NegativeCycleThrough(n, arcs, v) ==
  \E a \in arcs :
    /\ a.from = v
    /\ MinWalk(arcs, a.to, v, n - 1) # Infinity
    /\ a.weight + MinWalk(arcs, a.to, v, n - 1) < 0

HasNegativeCycle(n, arcs) == \E v \in 0..(n - 1) : NegativeCycleThrough(n, arcs, v)

ReachableNegativeCycle(n, arcs, s) ==
  \E v \in Reachable(n, arcs, s) : NegativeCycleThrough(n, arcs, v)

Connected(n, es) == Reachable(n, UndirectedArcs(es), 0) = 0..(n - 1)

RECURSIVE SumOfNegativeWeights(_)
SumOfNegativeWeights(es) ==
  IF es = <<>> THEN 0
  ELSE SumOfNegativeWeights(Tail(es)) + (IF es[1].weight < 0 THEN -es[1].weight ELSE 0)

RECURSIVE SumOfAbsoluteWeights(_)
SumOfAbsoluteWeights(es) ==
  IF es = <<>> THEN 0
  ELSE SumOfAbsoluteWeights(Tail(es))
         + (IF es[1].weight < 0 THEN -es[1].weight ELSE es[1].weight)

\* the component a has just run its engine on its inputs
JustRan(a) ==
  algo = a /\ lastCall = "runVisualization" /\ CanRun /\ steps # <<>>

ExampleDistances == (0 :> 0) @@ (1 :> 3) @@ (2 :> 2) @@ (3 :> 8) @@ (4 :> 10) @@ (5 :> 13)

(* Engines: properties *)

\* C7: the distances of the final Dijkstra step are the shortest-path
\* distances from the source over the edges walked both ways, Infinity exactly
\* for the vertices not connected to the source, and [0,3,2,8,10,13] for the
\* 6-vertex example graph with source 0.
C7_DijkstraFinalDistancesAreShortest ==
  JustRan("dijkstra")
    => LET final == Last(steps).distances
           arcs == UndirectedArcs(edges)
       IN  /\ final = ShortestDistances(vertices, arcs, startVertex)
           /\ \A v \in 0..(vertices - 1) :
                final[v] = Infinity <=> v \notin Reachable(vertices, arcs, startVertex)
           /\ (vertices = 6 /\ edges = DefaultUndirectedEdges /\ startVertex = 0
                 => final = ExampleDistances)

\* C7 witness: Dijkstra has run on the 6-vertex example graph from source 0.
C7_Witness ==
  /\ JustRan("dijkstra")
  /\ vertices = 6 /\ edges = DefaultUndirectedEdges /\ startVertex = 0
  /\ Last(steps).distances = ExampleDistances

\* row s of the distance matrix of Floyd-Warshall's final step on the inputs
FloydWarshallRow ==
  Last(floydWarshallAlgorithm(vertices, edges)).distances[startVertex]

\* C8 (as stated): on a directed signed-weight graph without a negative cycle,
\* the distances of Bellman-Ford's final step equal row s of Floyd-Warshall's
\* final distance matrix in every entry, reachable from s or not.
C8_BellmanFordEqualsFloydWarshallRow ==
  JustRan("bellmanford") /\ ~HasNegativeCycle(vertices, Arcs(edges))
    => Last(steps).distances = FloydWarshallRow

\* C8 (amended): on a directed signed-weight graph without a negative cycle
\* whose absolute weights sum to less than the sentinel 999, the distances of
\* Bellman-Ford's final step equal row s of Floyd-Warshall's final distance
\* matrix in every entry of a vertex reachable from s; in an entry of a vertex
\* not reachable from s Bellman-Ford holds Infinity and Floyd-Warshall a
\* finite value, at most 999 and at least 999 less the negative weights.
C8_BellmanFordEqualsFloydWarshallWhereReachable ==
  /\ JustRan("bellmanford")
  /\ ~HasNegativeCycle(vertices, Arcs(edges))
  /\ SumOfAbsoluteWeights(edges) < INF
  => \A v \in 0..(vertices - 1) :
       IF v \in Reachable(vertices, Arcs(edges), startVertex)
       THEN Last(steps).distances[v] = FloydWarshallRow[v]
       ELSE /\ Last(steps).distances[v] = Infinity
            /\ FloydWarshallRow[v] <= INF
            /\ FloydWarshallRow[v] >= INF - SumOfNegativeWeights(edges)

\* C8 witness: Bellman-Ford has run on a graph without a negative cycle in
\* which one vertex besides the source is reachable and another is not, the
\* latter with a Floyd-Warshall entry below the sentinel.
C8_Witness ==
  /\ JustRan("bellmanford")
  /\ ~HasNegativeCycle(vertices, Arcs(edges))
  /\ \E v \in 0..(vertices - 1) :
       /\ v # startVertex
       /\ v \in Reachable(vertices, Arcs(edges), startVertex)
       /\ Last(steps).distances[v] = FloydWarshallRow[v]
  /\ \E v \in 0..(vertices - 1) :
       /\ v \notin Reachable(vertices, Arcs(edges), startVertex)
       /\ FloydWarshallRow[v] < INF

\* C9: hasNegativeCycle is true on the final Bellman-Ford step exactly when a
\* negative cycle is reachable from the source; the final step is then the
\* negative-cycle step, otherwise the no-negative-cycle step, and the flag is
\* false on every step before the last.
C9_NegativeCycleFlagOnFinalStepOnly ==
  JustRan("bellmanford")
    => /\ Last(steps).hasNegativeCycle
            <=> ReachableNegativeCycle(vertices, Arcs(edges), startVertex)
       /\ Last(steps).description =
            (IF Last(steps).hasNegativeCycle THEN "Negative cycle detected"
             ELSE "No negative cycle found")
       /\ \A k \in 1..(Len(steps) - 1) :
            /\ ~steps[k].hasNegativeCycle
            /\ steps[k].description \notin
                 {"Negative cycle detected", "No negative cycle found"}

\* C9 witness: Bellman-Ford has run on a graph with a negative cycle reachable
\* from the source, and the final step carries the flag.
C9_Witness ==
  /\ JustRan("bellmanford")
  /\ ReachableNegativeCycle(vertices, Arcs(edges), startVertex)
  /\ Last(steps).hasNegativeCycle
  /\ Len(steps) > 3

\* C10: on a connected undirected weighted graph, for every start vertex, the
\* totalWeight of Prim's final step equals the totalWeight of Kruskal's final
\* step on the same graph.
C10_PrimTotalEqualsKruskalTotal ==
  JustRan("prim") /\ Connected(vertices, edges)
    => Last(steps).totalWeight = Last(kruskalMST(vertices, edges)).totalWeight

\* C10 witness: Prim has run from a start vertex other than 0 on a connected
\* graph with a cycle, so that an edge had to be left out.
C10_Witness ==
  /\ JustRan("prim")
  /\ Connected(vertices, edges)
  /\ startVertex # 0
  /\ Len(edges) >= vertices
  /\ Last(steps).totalWeight = Last(kruskalMST(vertices, edges)).totalWeight
  /\ Last(steps).totalWeight < SumOfAbsoluteWeights(edges)

----------------------------------------------------------------------------
(* String engines: properties *)

\* the pattern occurs in the text at offset i
OccursAt(txt, pat, i) ==
  /\ i >= 0
  /\ i + Len(pat) <= Len(txt)
  /\ \A j \in 0..(Len(pat) - 1) : txt[i + j + 1] = pat[j + 1]

\* every offset at which the pattern occurs in the text
Occurrences(txt, pat) == {i \in 0..Len(txt) : OccursAt(txt, pat, i)}

\* the elements of a list
Elements(list) == {list[k] : k \in 1..Len(list)}

\* C11: for every text and non-empty pattern, the matches of KMP's final step
\* and the matches of Naive's final step hold the same offsets, namely every
\* offset at which the pattern occurs in the text, overlapping occurrences
\* included; for "ABABCABABA" and "ABABA" this is [5].
C11_KMPAndNaiveReportAllOccurrences ==
  /\ JustRan("kmp") =>
       /\ Elements(Last(steps).matches) = Occurrences(Trim(text), Trim(pattern))
       /\ Elements(Last(steps).matches) =
            Elements(Last(naiveSearch(Trim(text), Trim(pattern)).steps).matches)
       /\ text = DefaultText /\ pattern = DefaultPattern => Last(steps).matches = <<5>>
  /\ JustRan("naive") =>
       /\ Elements(Last(steps).matches) = Occurrences(Trim(text), Trim(pattern))
       /\ Elements(Last(steps).matches) =
            Elements(Last(kmpSearch(Trim(text), Trim(pattern)).steps).matches)
       /\ text = DefaultText /\ pattern = DefaultPattern => Last(steps).matches = <<5>>

\* C11 witness: KMP has run on a text in which two occurrences of the pattern
\* overlap, and reported both.
C11_Witness ==
  /\ JustRan("kmp")
  /\ Len(Last(steps).matches) >= 2
  /\ Last(steps).matches[2] - Last(steps).matches[1] < Len(Trim(pattern))
  /\ Len(Trim(pattern)) >= 2

\* C12: for every text, every pattern no longer than the text and every
\* positive base and prime, the matches of Rabin-Karp's final step hold exactly
\* the offsets at which the pattern occurs in the text: none is recorded
\* without the character check passing, and no occurrence is missed.
C12_RabinKarpReportsAllOccurrences ==
  JustRan("rabinkarp") /\ Len(Trim(pattern)) <= Len(Trim(text))
    => Elements(Last(steps).matches) = Occurrences(Trim(text), Trim(pattern))

\* the steps Rabin-Karp emits after comparing a window with the pattern
RKVerificationSteps == {"Hash match and exact match", "Hash collision"}

\* C13 as stated: in every step of a Rabin-Karp trace, isExactMatch is true if
\* and only if the step's currentWindow equals the pattern.
C13_ExactFlagIffWindowEqualsPattern ==
  JustRan("rabinkarp") =>
    \A k \in 1..Len(steps) :
      steps[k].isExactMatch <=> steps[k].currentWindow = Trim(pattern)

\* C13: in every step of a Rabin-Karp trace, currentWindow is the text
\* substring of the pattern's length starting at windowStart; isExactMatch is
\* true only in a step emitted after a hash match, and in such a step it is
\* true if and only if currentWindow equals the pattern; in every other step
\* (initialize, rolling hash, search complete) it is false whatever the window.
C13_ExactFlagIffEqualInVerificationSteps ==
  JustRan("rabinkarp") =>
    \A k \in 1..Len(steps) :
      LET s == steps[k]
      IN  /\ s.currentWindow =
               Substring(Trim(text), s.windowStart, s.windowStart + Len(Trim(pattern)))
          /\ IF s.description \in RKVerificationSteps
             THEN /\ s.isHashMatch
                  /\ s.windowHash = s.patternHash
                  /\ s.isExactMatch <=> s.currentWindow = Trim(pattern)
             ELSE ~s.isExactMatch

\* C13 witness: a Rabin-Karp trace with a verification step whose window is the
\* pattern and another whose window only shares the pattern's hash.
C13_Witness ==
  /\ JustRan("rabinkarp")
  /\ \E k \in 1..Len(steps) :
       /\ steps[k].description \in RKVerificationSteps
       /\ steps[k].isExactMatch
       /\ steps[k].currentWindow = Trim(pattern)
  /\ \E k \in 1..Len(steps) :
       /\ steps[k].description \in RKVerificationSteps
       /\ ~steps[k].isExactMatch
       /\ steps[k].currentWindow # Trim(pattern)

----------------------------------------------------------------------------
(* Huffman: properties *)

\* code is a prefix of bits
IsPrefix(code, bits) ==
  Len(code) <= Len(bits) /\ SubSeq(bits, 1, Len(code)) = code

\* every text whose characters' codes, concatenated, are the bit string
RECURSIVE Decodings(_, _)
Decodings(bits, table) ==
  IF bits = <<>> THEN {<<>>}
  ELSE UNION { { char \o rest :
                   rest \in Decodings(SubSeq(bits, Len(table[char]) + 1, Len(bits)),
                                      table) } :
               char \in {c \in DOMAIN table : table[c] # <<>> /\ IsPrefix(table[c], bits)} }

\* C14: for every non-empty input text (a text with a single distinct character
\* included, whose code is "0"), decoding the encoded bit string with the
\* produced code table gives back exactly the input text.
C14_HuffmanDecodingGivesBackTheText ==
  JustRan("huffman") =>
    /\ Decodings(encodedText, codes) = {Trim(text)}
    /\ Cardinality(DOMAIN codes) = 1 => \A c \in DOMAIN codes : codes[c] = <<"0">>

----------------------------------------------------------------------------
(* Traces: properties *)

\* C15: in the trace any of the nine engines produces, the step fields are
\* 1-based and increase by one: the k-th step of the trace has step = k.
C15_StepsAreNumberedFromOne ==
  algo \in Algos /\ lastCall = "runVisualization" /\ CanRun
    => \A k \in 1..Len(steps) : steps[k].step = k

\* C15 witness: Bellman-Ford has produced a trace of more than four steps, the
\* last of which is numbered with the length of the trace.
C15_Witness ==
  /\ JustRan("bellmanford")
  /\ Len(steps) > 4
  /\ steps[1].step = 1
  /\ Last(steps).step = Len(steps)

----------------------------------------------------------------------------
(* Graph editing: properties *)

\* C16: whenever a graph engine run is started, after any sequence of
\* vertex-count edits, addEdge and removeLastEdge calls from the initial
\* state, every edge of the edge list has from and to in [0, vertexCount).
C16_EdgesInRangeWhenRunStarts ==
  algo \in GraphAlgos /\ lastCall = "runVisualization" /\ CanRun => EdgesInRange

----------------------------------------------------------------------------
(* Steps and the engine's arrays.  A step field written as [...array] or    *)
(* array.map(...) holds a copy; a field written with the bare name of an    *)
(* array or object of the engine holds that object itself, and what is read *)
(* through the step once the run has completed is the object's final        *)
(* content.                                                                 *)

\* Fault: every step of a string search stores foundMatches itself.
ReferencesUncopied(a, step) ==
  IF a \in StringAlgos THEN "matches" :> "foundMatches" ELSE <<>>

\* the fields of a step that hold an object of the engine, with the object:
\* the completion steps of the string searches store foundMatches, the
\* completion step of Huffman stores huffmanCodes
References(a, step) ==
  IF a \in StringAlgos /\ step.description = "Search complete"
  THEN "matches" :> "foundMatches"
  ELSE IF a = "huffman" /\ step.description = "Huffman tree construction complete"
       THEN "codes" :> "huffmanCodes"
       ELSE <<>>

\* the content of an engine object when the run has completed: foundMatches
\* and huffmanCodes are the objects handed to setMatches and setCodes
FinalObject(object) ==
  CASE object = "foundMatches" -> matches
    [] object = "huffmanCodes" -> codes

\* the step as it is read once the run has completed
AtCompletion(a, step) ==
  [f \in DOMAIN step |->
     IF f \in DOMAIN References(a, step)
     THEN FinalObject(References(a, step)[f])
     ELSE step[f]]

----------------------------------------------------------------------------
(* The order of the steps of a Dijkstra run *)

IsStep(k, description) == k \in 1..Len(steps) /\ steps[k].description = description

\* the edges at vertex v in input order, each leading away from v
RECURSIVE EdgesFrom(_, _)
EdgesFrom(v, k) ==
  IF k > Len(edges) THEN <<>>
  ELSE IF edges[k].from = v
       THEN <<[to |-> edges[k].to, weight |-> edges[k].weight]>> \o EdgesFrom(v, k + 1)
       ELSE IF edges[k].to = v
            THEN <<[to |-> edges[k].from, weight |-> edges[k].weight]>>
                   \o EdgesFrom(v, k + 1)
            ELSE EdgesFrom(v, k + 1)

\* the distances after each strict improvement among the neighbours
\* adj[i..] of v, none of them for a visited neighbour
RECURSIVE ImprovedDistances(_, _, _, _, _)
ImprovedDistances(distances, visited, v, adj, i) ==
  IF i > Len(adj) THEN <<>>
  ELSE IF ~visited[adj[i].to] /\ distances[v] + adj[i].weight < distances[adj[i].to]
       THEN <<[distances EXCEPT ![adj[i].to] = distances[v] + adj[i].weight]>>
              \o ImprovedDistances([distances EXCEPT
                                      ![adj[i].to] = distances[v] + adj[i].weight],
                                   visited, v, adj, i + 1)
       ELSE ImprovedDistances(distances, visited, v, adj, i + 1)

\* the distance arrays the round of the selection step k has to show
RoundImprovements(k) ==
  ImprovedDistances(steps[k].distances,
                    [steps[k].visited EXCEPT ![steps[k].minVertex] = TRUE],
                    steps[k].minVertex, EdgesFrom(steps[k].minVertex, 1), 1)

\* the vertex selected in step k is unvisited, at a finite distance that no
\* unvisited vertex beats, and the lowest-indexed such vertex
SelectsLowestMinimum(k) ==
  /\ steps[k].minVertex \in 0..(vertices - 1)
  /\ ~steps[k].visited[steps[k].minVertex]
  /\ steps[k].distances[steps[k].minVertex] # Infinity
  /\ \A u \in 0..(vertices - 1) :
       ~steps[k].visited[u] =>
         \/ steps[k].distances[u] > steps[k].distances[steps[k].minVertex]
         \/ /\ steps[k].distances[u] = steps[k].distances[steps[k].minVertex]
            /\ u >= steps[k].minVertex

\* step k + 1 marks the selected vertex, steps k + 2 .. record the
\* improvements in adjacency order, and the step after them is no update
RoundInOrder(k) ==
  /\ IsStep(k + 1, "Mark vertex")
  /\ steps[k + 1].currentVertex = steps[k].minVertex
  /\ steps[k + 1].distances = steps[k].distances
  /\ steps[k + 1].visited = [steps[k].visited EXCEPT ![steps[k].minVertex] = TRUE]
  /\ \A j \in 1..Len(RoundImprovements(k)) :
       /\ IsStep(k + 1 + j, "Update distance")
       /\ steps[k + 1 + j].distances = RoundImprovements(k)[j]
       /\ steps[k + 1 + j].visited = steps[k + 1].visited
       /\ steps[k + 1 + j].currentVertex = steps[k].minVertex
  /\ ~IsStep(k + 2 + Len(RoundImprovements(k)), "Update distance")

\* C18: in a Dijkstra run every selection step selects the lowest-indexed
\* unvisited vertex of minimal finite distance and is followed by its
\* mark-visited step and then by one update step per strictly improving
\* unvisited neighbour, in adjacency order; mark and update steps occur
\* nowhere else; the run ends when no unvisited vertex has a finite distance.
C18_DijkstraRoundsInOrder ==
  algo = "dijkstra" /\ steps # <<>> =>
    /\ \A k \in 1..Len(steps) :
         /\ steps[k].description = "Initialize" <=> k = 1
         /\ steps[k].description = "Dijkstra's algorithm complete" <=> k = Len(steps)
         /\ steps[k].description = "Select vertex" =>
              SelectsLowestMinimum(k) /\ RoundInOrder(k)
         /\ steps[k].description = "Mark vertex" => IsStep(k - 1, "Select vertex")
         /\ steps[k].description = "Update distance" =>
              IsStep(k - 1, "Mark vertex") \/ IsStep(k - 1, "Update distance")
    /\ \A u \in 0..(vertices - 1) :
         Last(steps).visited[u] \/ Last(steps).distances[u] = Infinity

\* a run with a tie at a selection, and with a round that updates some
\* neighbours of the selected vertex and passes over others
C18_Witness ==
  /\ algo = "dijkstra"
  /\ \E k \in 1..Len(steps) :
       /\ steps[k].description = "Select vertex"
       /\ \E u \in 0..(vertices - 1) :
            /\ u > steps[k].minVertex
            /\ ~steps[k].visited[u]
            /\ steps[k].distances[u] = steps[k].distances[steps[k].minVertex]
  /\ \E k \in 1..Len(steps) :
       /\ steps[k].description = "Select vertex"
       /\ Len(RoundImprovements(k)) >= 1
       /\ Len(RoundImprovements(k)) < Len(EdgesFrom(steps[k].minVertex, 1))

----------------------------------------------------------------------------
(* The order of the steps of a Bellman-Ford run *)

\* edge k of the input list can be relaxed at these distances
Relaxable(distances, k) ==
  /\ distances[edges[k].from] # Infinity
  /\ distances[edges[k].from] + edges[k].weight < distances[edges[k].to]

\* the relaxations of one pass over the input edges k.., in list order: the
\* edge and the distances after it
RECURSIVE PassRelaxations(_, _)
PassRelaxations(distances, k) ==
  IF k > Len(edges) THEN <<>>
  ELSE IF Relaxable(distances, k)
       THEN <<[edge |-> edges[k],
               distances |-> [distances EXCEPT ![edges[k].to] =
                                distances[edges[k].from] + edges[k].weight]]>>
              \o PassRelaxations([distances EXCEPT ![edges[k].to] =
                                    distances[edges[k].from] + edges[k].weight],
                                 k + 1)
       ELSE PassRelaxations(distances, k + 1)

\* the pass that starts at the iteration step k shows its relaxations one
\* step each in list order; an empty pass is followed by the
\* early-termination step and the check, any other by the next iteration
\* or the check
PassInOrder(k) ==
  /\ \A j \in 1..Len(PassRelaxations(steps[k].distances, 1)) :
       /\ IsStep(k + j, "Relax edge")
       /\ steps[k + j].currentEdge = PassRelaxations(steps[k].distances, 1)[j].edge
       /\ steps[k + j].distances = PassRelaxations(steps[k].distances, 1)[j].distances
       /\ steps[k + j].relaxationCount = steps[k].relaxationCount + j
  /\ IF PassRelaxations(steps[k].distances, 1) = <<>>
     THEN /\ IsStep(k + 1, "No edges relaxed")
          /\ IsStep(k + 2, "Check for negative cycles")
     ELSE \/ IsStep(k + 1 + Len(PassRelaxations(steps[k].distances, 1)), "Iteration")
          \/ IsStep(k + 1 + Len(PassRelaxations(steps[k].distances, 1)),
                    "Check for negative cycles")

\* C19: a Bellman-Ford run starts at most vertices - 1 iterations; each pass
\* shows one step per successful relaxation in input list order; a pass
\* without a relaxation is followed by the early-termination step and no
\* further iteration; the negative-cycle check comes exactly once, after
\* the passes, and is followed by its one verdict step.
C19_BellmanFordPassesInOrder ==
  algo = "bellmanford" /\ steps # <<>> =>
    /\ Cardinality({k \in 1..Len(steps) : steps[k].description = "Iteration"})
         <= vertices - 1
    /\ \A k \in 1..Len(steps) :
         /\ steps[k].description = "Initialize" <=> k = 1
         /\ steps[k].description = "Iteration" => PassInOrder(k)
         /\ steps[k].description = "Relax edge" =>
              IsStep(k - 1, "Iteration") \/ IsStep(k - 1, "Relax edge")
         /\ steps[k].description = "No edges relaxed" => IsStep(k - 1, "Iteration")
         /\ steps[k].description = "Check for negative cycles" <=> k = Len(steps) - 1
         /\ steps[k].description \in {"Negative cycle detected", "No negative cycle found"}
              <=> k = Len(steps)
    /\ Last(steps).hasNegativeCycle
         <=> \E k \in 1..Len(edges) : Relaxable(Last(steps).distances, k)

\* a run of two iterations: the first relaxes some edges of the list and
\* passes over others, the second relaxes none and ends the iterations early
C19_Witness ==
  /\ algo = "bellmanford"
  /\ \E k \in 1..Len(steps) :
       /\ steps[k].description = "Iteration"
       /\ Len(PassRelaxations(steps[k].distances, 1)) >= 1
       /\ Len(PassRelaxations(steps[k].distances, 1)) < Len(edges)
  /\ \E k \in 1..Len(steps) : steps[k].description = "No edges relaxed"
  /\ Cardinality({k \in 1..Len(steps) : steps[k].description = "Iteration"}) = 2

----------------------------------------------------------------------------
(* Path reconstruction from Floyd-Warshall's next matrix *)

\* the final step of Floyd-Warshall on the inputs of the component
FloydWarshallFinal == Last(floydWarshallAlgorithm(vertices, edges))

\* the weight of the input edge from u to t, Infinity if there is none
ArcWeight(u, t) ==
  IF \E a \in Arcs(edges) : a.from = u /\ a.to = t
  THEN (CHOOSE a \in Arcs(edges) : a.from = u /\ a.to = t).weight
  ELSE Infinity

\* the weight of the walk that follows next from u until it stands at j,
\* Infinity if within k hops it meets null, leaves the input edges, or has
\* not arrived
RECURSIVE NextPathWeight(_, _, _, _)
NextPathWeight(next, u, j, k) ==
  IF u = j THEN 0
  ELSE IF k = 0 \/ next[u][j] = Null THEN Infinity
  ELSE IF ArcWeight(u, next[u][j]) = Infinity THEN Infinity
  ELSE IF NextPathWeight(next, next[u][j], j, k - 1) = Infinity THEN Infinity
  ELSE ArcWeight(u, next[u][j]) + NextPathWeight(next, next[u][j], j, k - 1)

\* the component holds a directed graph and its engine has just run
RanOnDirectedGraph == JustRan("floydwarshall") \/ JustRan("bellmanford")

----------------------------------------------------------------------------
(* The order of the steps of a Kruskal run *)

\* the place of the edge e in the input list
IndexOf(e) == CHOOSE k \in 1..Len(edges) : edges[k] = e

\* e comes before f in ascending weight order, ties in input-list order
Before(e, f) ==
  \/ e.weight < f.weight
  \/ e.weight = f.weight /\ IndexOf(e) < IndexOf(f)

\* the edges of the steps before step k that carry the tag
EdgesOfStepsBefore(k, description) ==
  {steps[h].currentEdge : h \in {g \in 1..(k - 1) : IsStep(g, description)}}

\* the endpoints of e are joined by the edges of the set es
Joins(es, e) == e.to \in ReachWithin(es \cup {Reversed(a) : a \in es}, {e.from}, vertices)

\* step k examines the next edge of the order, before vertices - 1 edges are
\* accepted, and step k + 1 gives the verdict on it
ExaminationInOrder(k) ==
  /\ \A e \in Arcs(edges) :
       Before(e, steps[k].currentEdge)
         <=> e \in EdgesOfStepsBefore(k, "Examining edge")
  /\ Cardinality(EdgesOfStepsBefore(k, "added to MST")) < vertices - 1
  /\ IF Joins(EdgesOfStepsBefore(k, "added to MST"), steps[k].currentEdge)
     THEN IsStep(k + 1, "rejected") /\ ~steps[k + 1].isValidEdge
     ELSE IsStep(k + 1, "added to MST") /\ steps[k + 1].isValidEdge
  /\ steps[k + 1].currentEdge = steps[k].currentEdge

\* C21: Kruskal examines the edges in ascending weight order, ties in
\* input-list order; each examining step is immediately followed by one
\* verdict step on the same edge, accepted exactly when the endpoints lay in
\* different components of the edges accepted before, rejected otherwise;
\* a verdict step follows nothing but an examining step; and no edge is
\* examined once vertices - 1 edges are accepted.
C21_KruskalExaminesInOrder ==
  JustRan("kruskal")
    => \A k \in 1..Len(steps) :
         /\ IsStep(k, "Examining edge") => ExaminationInOrder(k)
         /\ IsStep(k, "added to MST") \/ IsStep(k, "rejected")
              => IsStep(k - 1, "Examining edge")

\* a run with two edges of one weight examined in input order, a rejected
\* edge, and an edge left unexamined after the last acceptance
C21_Witness ==
  /\ JustRan("kruskal")
  /\ \E h, k \in 1..Len(steps) :
       /\ h < k
       /\ IsStep(h, "Examining edge") /\ IsStep(k, "Examining edge")
       /\ steps[h].currentEdge.weight = steps[k].currentEdge.weight
  /\ \E k \in 1..Len(steps) : IsStep(k, "rejected")
  /\ Arcs(edges) \ EdgesOfStepsBefore(Len(steps), "Examining edge") # {}
  /\ Len(Last(steps).mstEdges) = vertices - 1

----------------------------------------------------------------------------
(* The choices of a Prim run *)

\* the edges with exactly one visited endpoint, each leading away from its
\* visited endpoint
Frontier(visited) ==
  {a \in UndirectedArcs(edges) : visited[a.from] /\ ~visited[a.to]}

\* the place in the input list of the edge that the arc a walks
InputIndex(a) ==
  CHOOSE k \in 1..Len(edges) : edges[k] = a \/ edges[k] = Reversed(a)

\* the arc a is met before the arc b by the scan over the visited vertices in
\* index order and the edges at each of them in stored order
ScannedBefore(a, b) ==
  \/ a.from < b.from
  \/ a.from = b.from /\ InputIndex(a) < InputIndex(b)

\* the arc a is the lightest of the frontier, and of the lightest the first
\* that the scan meets
FirstLightest(a, frontier) ==
  /\ a \in frontier
  /\ \A b \in frontier \ {a} :
       \/ a.weight < b.weight
       \/ a.weight = b.weight /\ ScannedBefore(a, b)

NumberVisited(visited) == Cardinality({v \in DOMAIN visited : visited[v]})

\* the loop has nothing left to do after the step
PrimEnded(step) ==
  Len(step.mstEdges) = vertices - 1 \/ Frontier(step.visited) = {}

\* step k chooses the first lightest edge of the frontier and step k + 1
\* takes it
ChoiceInOrder(k) ==
  /\ FirstLightest(steps[k].minEdge, Frontier(steps[k].visited))
  /\ IsStep(k + 1, "Add vertex")
  /\ steps[k + 1].visited = [steps[k].visited EXCEPT ![steps[k].minEdge.to] = TRUE]
  /\ steps[k + 1].mstEdges = Append(steps[k].mstEdges, steps[k].minEdge)

\* C23: every Prim iteration chooses an edge of minimum weight among the
\* edges with exactly one visited endpoint, of these the first in the scan
\* over the visited vertices in index order and their edges in stored order;
\* every step has one visited vertex more than MST edges; and the loop goes
\* on to another choice exactly while fewer than vertices - 1 edges are
\* collected and the frontier is not empty.
C23_PrimChoosesFirstLightestFrontierEdge ==
  JustRan("prim")
    => \A k \in 1..Len(steps) :
         /\ NumberVisited(steps[k].visited) = Len(steps[k].mstEdges) + 1
         /\ IsStep(k, "Find minimum weight edge") => ChoiceInOrder(k)
         /\ IsStep(k, "Start with vertex") \/ IsStep(k, "Add vertex")
              => IF PrimEnded(steps[k])
                 THEN IsStep(k + 1, "Minimum Spanning Tree complete")
                 ELSE IsStep(k + 1, "Find minimum weight edge")
         /\ IsStep(k, "Minimum Spanning Tree complete")
              => k = Len(steps) /\ PrimEnded(steps[k])

\* a run in which a choice falls between two lightest frontier edges and the
\* one taken stands later in the input list, being met earlier by the scan
C23_Witness ==
  /\ JustRan("prim")
  /\ \E k \in 1..Len(steps) :
       /\ IsStep(k, "Find minimum weight edge")
       /\ \E b \in Frontier(steps[k].visited) :
            /\ b.weight = steps[k].minEdge.weight
            /\ InputIndex(b) < InputIndex(steps[k].minEdge)

----------------------------------------------------------------------------
(* Kruskal's spanning forest *)

RECURSIVE SumOfWeights(_)
SumOfWeights(es) == IF es = <<>> THEN 0 ELSE SumOfWeights(Tail(es)) + es[1].weight

\* no edge of the list closes a cycle with the others: taking any edge away
\* parts its endpoints
Acyclic(es) ==
  /\ \A h, k \in 1..Len(es) : h # k => es[h] # es[k]
  /\ \A k \in 1..Len(es) : ~Joins(Arcs(es) \ {es[k]}, es[k])

\* the components of the graph of the edge list es on the n vertices
Components(n, es) == {Reachable(n, UndirectedArcs(es), v) : v \in 0..(n - 1)}

\* C22: on every undirected graph, connected or not, the mstEdges of every
\* Kruskal step are acyclic and totalWeight is the sum of their weights; in
\* the final step two vertices are joined by mstEdges exactly when they are
\* connected in the input graph, and the forest has as many edges as there
\* are vertices less components.
C22_KruskalBuildsSpanningForest ==
  JustRan("kruskal")
    => /\ \A k \in 1..Len(steps) :
            /\ Acyclic(steps[k].mstEdges)
            /\ steps[k].totalWeight = SumOfWeights(steps[k].mstEdges)
            /\ Arcs(steps[k].mstEdges) \subseteq Arcs(edges)
       /\ Components(vertices, Last(steps).mstEdges) = Components(vertices, edges)
       /\ Len(Last(steps).mstEdges)
            = vertices - Cardinality(Components(vertices, edges))

\* a run on a graph that is not connected, ending with a forest that has
\* edges, but fewer than vertices - 1
C22_Witness ==
  /\ JustRan("kruskal")
  /\ ~Connected(vertices, edges)
  /\ Last(steps).mstEdges # <<>>
  /\ Len(Last(steps).mstEdges) < vertices - 1

----------------------------------------------------------------------------
(* The comparisons of a Naive run *)

\* how many characters of pat agree with txt from offset i on, before the
\* first that differs
RECURSIVE MatchedPrefix(_, _, _, _)
MatchedPrefix(txt, pat, i, j) ==
  IF j < Len(pat) /\ txt[i + j + 1] = pat[j + 1]
  THEN MatchedPrefix(txt, pat, i, j + 1)
  ELSE j

\* the comparisons the search performs: the window, the pattern index, and
\* whether the two characters agree
Performed(txt, pat) ==
  {[windowStart |-> i, patternIndex |-> j, isMatch |-> txt[i + j + 1] = pat[j + 1]] :
     <<i, j>> \in {x \in (0..(Len(txt) - Len(pat))) \X (0..(Len(pat) - 1)) :
                     x[2] <= MatchedPrefix(txt, pat, x[1], 0)}}

\* the matched-prefix lengths of the windows from i on, plus one for each
\* window that ends in a mismatch
RECURSIVE WindowComparisons(_, _, _)
WindowComparisons(txt, pat, i) ==
  IF i > Len(txt) - Len(pat) THEN 0
  ELSE MatchedPrefix(txt, pat, i, 0)
         + (IF MatchedPrefix(txt, pat, i, 0) < Len(pat) THEN 1 ELSE 0)
         + WindowComparisons(txt, pat, i + 1)

\* the steps that record a comparison
ComparisonSteps == {k \in 1..Len(steps) : IsStep(k, "Match") \/ IsStep(k, "Mismatch")}

\* C24: in a Naive trace the comparisons field starts at 0, grows by one at
\* each match step and each mismatch step and stays at every other step;
\* these steps record exactly the comparisons performed, each once, with its
\* outcome; and the final step holds the sum over the windows of the
\* matched-prefix length plus one for each window that ended in a mismatch.
C24_NaiveCountsEveryComparisonOnce ==
  JustRan("naive")
    => /\ steps[1].comparisons = 0
       /\ \A k \in 2..Len(steps) :
            steps[k].comparisons
              = steps[k - 1].comparisons + (IF k \in ComparisonSteps THEN 1 ELSE 0)
       /\ {[windowStart |-> steps[k].windowStart,
            patternIndex |-> steps[k].patternIndex,
            isMatch |-> steps[k].isMatch] : k \in ComparisonSteps}
            = Performed(Trim(text), Trim(pattern))
       /\ \A k \in ComparisonSteps :
            steps[k].textIndex = steps[k].windowStart + steps[k].patternIndex
       /\ Cardinality(ComparisonSteps) = Cardinality(Performed(Trim(text), Trim(pattern)))
       /\ Last(steps).comparisons = WindowComparisons(Trim(text), Trim(pattern), 0)
       /\ totalComparisons = Last(steps).comparisons

\* a run with a window that ends in a mismatch after matching characters and
\* a window that matches the whole pattern
C24_Witness ==
  /\ JustRan("naive")
  /\ \E k \in 1..Len(steps) : IsStep(k, "Mismatch") /\ steps[k].patternIndex > 0
  /\ \E k \in 1..Len(steps) : IsStep(k, "Complete match found")
  /\ Len(Trim(pattern)) > 1

----------------------------------------------------------------------------
(* KMP's failure function *)

\* the lengths of the proper prefixes of str that are also suffixes of str
Borders(str) ==
  {l \in 0..(Len(str) - 1) : SubSeq(str, 1, l) = SubSeq(str, Len(str) - l + 1, Len(str))}

\* the length of the longest of them
LongestBorder(str) == CHOOSE l \in Borders(str) : \A h \in Borders(str) : h <= l

\* C25: for every non-empty pattern the failure function has one entry for
\* each character, lps[0] = 0, and lps[i] is the length of the longest proper
\* prefix of pattern[0..i] that is also a suffix of it; for "ABABA" it is
\* [0, 0, 1, 2, 3].
C25_FailureFunctionIsLongestBorder ==
  JustRan("kmp")
    => /\ DOMAIN failureFunction = 0..(Len(Trim(pattern)) - 1)
       /\ failureFunction[0] = 0
       /\ \A i \in 0..(Len(Trim(pattern)) - 1) :
            failureFunction[i] = LongestBorder(SubSeq(Trim(pattern), 1, i + 1))
       /\ Trim(pattern) = <<"A", "B", "A", "B", "A">>
            => failureFunction = (0 :> 0) @@ (1 :> 0) @@ (2 :> 1) @@ (3 :> 2) @@ (4 :> 3)

\* a run on a pattern where the loop falls back to a shorter border and
\* extends that one: an entry above 0 that does not extend the entry before
C25_Witness ==
  /\ JustRan("kmp")
  /\ \E i \in 1..(Len(Trim(pattern)) - 1) :
       /\ failureFunction[i] > 0
       /\ failureFunction[i] <= failureFunction[i - 1]

----------------------------------------------------------------------------
(* The progress of a KMP run *)

\* the steps pushed at the head of a loop iteration: they record textIndex
\* and patternIndex as the iteration finds them
IterationSteps == {k \in 1..Len(steps) : IsStep(k, "Match found") \/ IsStep(k, "Mismatch")}

\* the iteration of step k leaves the indices as the iteration of step h
\* finds them: textIndex one further, or patternIndex lower at the same
\* textIndex
Progresses(k, h) ==
  \/ steps[h].textIndex = steps[k].textIndex + 1
  \/ /\ steps[h].textIndex = steps[k].textIndex
     /\ steps[h].patternIndex < steps[k].patternIndex

\* the iteration of step k is the last one: it moves textIndex to the end of
\* the text
LeavesLoop(k) ==
  /\ steps[k].textIndex = Len(Trim(text)) - 1
  /\ IsStep(k, "Match found") \/ steps[k].patternIndex = 0

\* C26: kmpSearch ends: every loop iteration moves textIndex one further or
\* lowers patternIndex, so there are at most twice as many iterations as text
\* characters; patternIndex is at least 0 and below the pattern length in
\* every step; and the textIndex field never decreases from a step to the next.
C26_KMPAlwaysProgresses ==
  JustRan("kmp")
    => /\ IsStep(Len(steps), "Search complete")
       /\ Cardinality(IterationSteps) <= 2 * Len(Trim(text))
       /\ \A k \in IterationSteps :
            IF \E h \in IterationSteps : h > k
            THEN Progresses(k, CHOOSE h \in IterationSteps :
                                 h > k /\ \A g \in IterationSteps : g > k => h <= g)
            ELSE LeavesLoop(k)
       /\ \A k \in 1..Len(steps) :
            /\ steps[k].patternIndex >= 0
            /\ steps[k].patternIndex < Len(Trim(pattern))
            /\ k > 1 => steps[k].textIndex >= steps[k - 1].textIndex

\* a run in which a mismatch falls back to a border that is not empty, goes
\* on at the same text character, and completes a match
C26_Witness ==
  /\ JustRan("kmp")
  /\ \E k \in 1..Len(steps) :
       /\ IsStep(k, "Using failure function")
       /\ steps[k].patternIndex > 0
       /\ IsStep(k + 1, "Match found")
       /\ steps[k + 1].textIndex = steps[k].textIndex
  /\ \E k \in 1..Len(steps) : IsStep(k, "Complete pattern match found")

----------------------------------------------------------------------------
(* The window hashes of a Rabin-Karp run *)

\* the base and the prime are small enough for every product of the hash
\* computations to be an exact integer (here: to stay below 2^31)
ExactProducts(b, p) ==
  /\ b > 0 /\ p > 0
  /\ b <= 2147483647 \div p - 1
  /\ 65536 <= 2147483647 \div p - 1

\* Horner's rule in exact integer arithmetic: the value of str as a number
\* in base b, modulo p
RECURSIVE HornerHash(_, _, _)
HornerHash(str, b, p) ==
  IF str = <<>> THEN 0
  ELSE (HornerHash(SubSeq(str, 1, Len(str) - 1), b, p) * b + charToNum(Last(str))) % p

\* b to the power k, modulo p
RECURSIVE PowerMod(_, _, _)
PowerMod(b, k, p) == IF k = 0 THEN 1 % p ELSE (PowerMod(b, k - 1, p) * b) % p

RollingSteps == {k \in 1..Len(steps) : IsStep(k, "Rolling hash")}

\* C27: for a pattern no longer than the text and a positive base and prime
\* small enough for exact products, the windowHash of every Rabin-Karp step
\* is at least 0 and below the prime and is the Horner hash of the step's
\* currentWindow, as calculateHash computes it and as exact arithmetic gives
\* it; and there is exactly one rolling-hash step for each window offset
\* 1..n-m.
C27_WindowHashIsHornerHash ==
  JustRan("rabinkarp") /\ ExactProducts(base, prime)
    => /\ \A k \in 1..Len(steps) :
            /\ steps[k].windowHash \in 0..(prime - 1)
            /\ steps[k].windowHash = HornerHash(steps[k].currentWindow, base, prime)
            /\ steps[k].windowHash
                 = calculateHash(steps[k].currentWindow, Len(Trim(pattern)), base, prime)
            /\ steps[k].currentWindow
                 = SubSeq(Trim(text), steps[k].windowStart + 1,
                          steps[k].windowStart + Len(Trim(pattern)))
       /\ {steps[k].windowStart : k \in RollingSteps}
            = 1..(Len(Trim(text)) - Len(Trim(pattern)))
       /\ Cardinality(RollingSteps) = Len(Trim(text)) - Len(Trim(pattern))

\* a run with several rolling-hash steps, at one of which the hash of the old
\* window is smaller than the term taken from it, so that the remainder is
\* negative before it is normalised
C27_Witness ==
  /\ JustRan("rabinkarp") /\ ExactProducts(base, prime)
  /\ Cardinality(RollingSteps) >= 2
  /\ \E k \in RollingSteps :
       /\ steps[k].windowHash > 0
       /\ HornerHash(SubSeq(Trim(text), steps[k].windowStart,
                            steps[k].windowStart + Len(Trim(pattern)) - 1), base, prime)
            < (charToNum(Trim(text)[steps[k].windowStart])
                 * PowerMod(base, Len(Trim(pattern)) - 1, prime)) % prime

----------------------------------------------------------------------------
(* The merges of a Huffman run *)

RECURSIVE SumOfFrequencies(_)
SumOfFrequencies(nodes) ==
  IF nodes = <<>> THEN 0 ELSE nodes[1].freq + SumOfFrequencies(Tail(nodes))

SortedByFrequency(nodes) ==
  \A k \in 1..(Len(nodes) - 1) : nodes[k].freq <= nodes[k + 1].freq

\* the place of the node that an ascending stable sort of nodes puts first,
\* the places of skip left out
FirstLowest(nodes, skip) ==
  CHOOSE k \in (1..Len(nodes)) \ skip :
    \A h \in (1..Len(nodes)) \ skip :
      \/ nodes[k].freq < nodes[h].freq
      \/ nodes[k].freq = nodes[h].freq /\ k <= h

\* the forest after the two lowest nodes of prior are merged holds, besides
\* the other nodes of prior, one node over the two: the first lowest on the
\* left, the second on the right, their frequencies added
MergesTwoLowest(prior, forest) ==
  LET first == FirstLowest(prior, {})
      second == FirstLowest(prior, {first})
      merged == Elements(forest) \ Elements(prior)
  IN  /\ Len(forest) = Len(prior) - 1
      /\ SortedByFrequency(forest)
      /\ Elements(prior) \ Elements(forest) = {prior[first], prior[second]}
      /\ \E node \in merged :
           /\ merged = {node}
           /\ node.char = None
           /\ node.left = Some(prior[first])
           /\ node.right = Some(prior[second])
           /\ node.freq = prior[first].freq + prior[second].freq

\* a Huffman trace for a text of the given length: each merge step's forest
\* comes from the previous step's by merging its two lowest nodes, the
\* frequencies of every step's forest sum to the length, and the last step
\* holds a single root of that frequency
HuffmanTraceFor(length) ==
  /\ \A k \in 1..Len(steps) :
       /\ SumOfFrequencies(steps[k].nodes) = length
       /\ IsStep(k, "Merge nodes")
            => MergesTwoLowest(steps[k - 1].nodes, steps[k].nodes)
  /\ IsStep(Len(steps), "Huffman tree construction complete")
  /\ Len(Last(steps).nodes) = 1
  /\ Last(steps).nodes[1].freq = length

----------------------------------------------------------------------------
(* The index and the intervals of the playback controller *)

\* C29: in every reachable state of the controller, whatever the order of
\* runs, steps forward and back, auto-play toggles, timer ticks and resets,
\* the current index is at least 0, at most N - 1 when the trace has N >= 1
\* steps, and 0 when the trace is empty: steps[currentStep] exists whenever
\* the trace is not empty.
C29_IndexWithinTrace ==
  /\ currentStep >= 0
  /\ steps # <<>> => currentStep <= Len(steps) - 1
  /\ steps = <<>> => currentStep = 0

\* a run started while auto-play was on has replaced a trace by a shorter
\* one, the old trace standing at a step beyond the new trace's end
C29_Witness ==
  /\ lastCall = "runVisualization"
  /\ steps # <<>>
  /\ Len(steps) < Len(before.steps)
  /\ before.currentStep > Len(steps) - 1
  /\ before.isAutoPlaying /\ before.timers # {}
  /\ currentStep = 0

\* C30: at most one auto-play interval is active at any time; none is active
\* while the auto-playing flag or the running flag is false; and the active
\* one is the interval the effect started last, held in intervalRef, whose
\* callback reads the length of the current trace: an interval of an earlier
\* run of the effect is cleared before the next is started.
C30_AtMostOneInterval ==
  /\ Cardinality(timers) <= 1
  /\ timers # {} => isAutoPlaying /\ isRunning
  /\ \A t \in timers : t.id = intervalRef /\ t.len = Len(steps)

\* the effect has just cleared the interval of its earlier run and started
\* another for a trace of another length
C30_Witness ==
  /\ lastCall = "runVisualization"
  /\ before.timers # {}
  /\ timers # {}
  /\ timers \cap before.timers = {}

====
